---- MODULE Spec2Model ----
(***************************************************************************)
(* Model of the MCP example servers: the JSON-RPC dispatchers of           *)
(* simple-server.ts and standalone-profile-server.ts, their stdio and HTTP *)
(* adapters, the SDK-based handlers of index.ts / profile-server.ts /      *)
(* enhanced-profile-server.ts and the shared bearer-token slot of the      *)
(* medicine server (getUserToken.ts).                                      *)
(***************************************************************************)
EXTENDS Integers, Sequences, FiniteSets, TLC

(***************************************************************************)
(* Bounds of the model.                                                    *)
(***************************************************************************)
MaxPieces == 2    \* pieces of text in one chunk read from stdin
MaxInput == 6     \* characters received on stdin in one run
MaxRequests == 2  \* HTTP requests to /mcp in one run
MaxSets == 3      \* calls of setters on the slot modules in one run

(***************************************************************************)
(* JavaScript values.  A value carries its type, so the number 7 and the   *)
(* string "7" are different values.                                        *)
(***************************************************************************)
Undefined == [type |-> "undefined"]
Null == [type |-> "null"]
Num(n) == [type |-> "number", v |-> n]
Str(s) == [type |-> "string", v |-> s]
Obj(p) == [type |-> "object", props |-> p]
Arr == [type |-> "array"]

\* o.k for a property read (undefined when the key is absent or o is a primitive)
Get(o, k) ==
  IF o.type = "object" /\ k \in DOMAIN o.props THEN o.props[k] ELSE Undefined

\* `${x}` / String(x)
ToStr(x) ==
  CASE x.type = "string" -> x.v
    [] x.type = "number" -> ToString(x.v)
    [] x.type = "null" -> "null"
    [] x.type = "undefined" -> "undefined"
    [] x.type = "array" -> ""
    [] OTHER -> "[object Object]"

\* JavaScript truthiness of the values used here
Truthy(x) ==
  CASE x.type = "undefined" -> FALSE
    [] x.type = "null" -> FALSE
    [] x.type = "string" -> x.v # ""
    [] x.type = "number" -> x.v # 0
    [] OTHER -> TRUE

\* a || b
OrElse(a, b) == IF Truthy(a) THEN a ELSE b

(***************************************************************************)
(* Error codes.                                                            *)
(***************************************************************************)
ParseError == -32700
MethodNotFound == -32601
InvalidParams == -32602
InternalError == -32603

(***************************************************************************)
(* State.                                                                  *)
(***************************************************************************)
VARIABLES
  server,            \* which program runs: "simple", "standalone", ...
  tools,             \* this.tools: the declared tool names, in order
  resources,         \* this.resources: the declared resource URIs, in order
  defaultProfileId,  \* this.defaultProfileId (standalone server)
  buffer,            \* the stdio data listener's `buffer`
  stdin,             \* every character received on stdin so far
  stdout,            \* the lines written to stdout, serialized
  calls,             \* every handleRequest call: its request and len(stdout) at the call
  running,           \* FALSE once process.exit was called
  exitCode,          \* the argument of process.exit
  client,            \* the JSON text this run's client sends
  lastCall,          \* the last direct call of a dispatcher: request and outcome
  userAccessToken,   \* getUserToken.ts: the module-level token slot
  currentAccessToken,\* the medicine server's own copy of the last token
  reqs,              \* the HTTP requests to /mcp: header, position, locals
  httpLast,          \* the last exchange on POST /mcp of the standalone server
  processEnv,        \* process.env: RENDER and PORT
  listening,         \* the transports in service: "stdio", "http"
  pending,           \* callbacks waiting in the event loop: "listening"
  stderr,            \* the lines written to stderr
  startPc,           \* where the start-up code is: "main", "connecting", "serving"
  slots,             \* userAuthenticationService.ts: the module-level slots
  slotLog            \* the calls made on the slot modules: last set values, last call

\* the state of the process's start-up
startVars == <<processEnv, listening, pending, stderr, startPc>>

\* the state of userAuthenticationService.ts and the record of its calls
slotVars == <<slots, slotLog>>

(***************************************************************************)
(* Outcomes of a call: a returned value or a thrown one.                   *)
(***************************************************************************)
Return(x) == [ok |-> TRUE, value |-> x]
Throw(e) == [ok |-> FALSE, thrown |-> e]
JsError(name, msg) == [type |-> "error", name |-> name, message |-> msg]

\* error instanceof Error ? error.message : String(error)
ErrorData(e) == IF e.type = "error" THEN e.message ELSE ToStr(e)

(***************************************************************************)
(* Response envelopes as the dispatcher builds them (in memory).           *)
(***************************************************************************)
ResultEnvelope(id, r) == [jsonrpc |-> "2.0", id |-> id, result |-> r]
\* faulty variant: the error envelope carries the id converted to a string
ErrorEnvelopeStringId(id, code, msg) ==
  [jsonrpc |-> "2.0", id |-> Str(ToStr(id)),
   error |-> [code |-> code, message |-> msg]]

ErrorEnvelope(id, code, msg) ==
  [jsonrpc |-> "2.0", id |-> id, error |-> [code |-> code, message |-> msg]]
\* faulty variant: the catch block reports the failure without its cause
ErrorEnvelopeDataDropped(id, code, msg, data) ==
  [jsonrpc |-> "2.0", id |-> id, error |-> [code |-> code, message |-> msg]]

\* faulty variant: the catch block leaves a partial result next to the error
ErrorEnvelopeDataWithResult(id, code, msg, data) ==
  [jsonrpc |-> "2.0", id |-> id, result |-> [content |-> <<>>],
   error |-> [code |-> code, message |-> msg, data |-> data]]

ErrorEnvelopeData(id, code, msg, data) ==
  [jsonrpc |-> "2.0", id |-> id,
   error |-> [code |-> code, message |-> msg, data |-> data]]

(***************************************************************************)
(* The registries the servers are constructed with.                        *)
(***************************************************************************)
ConfiguredTools(srv) ==
  CASE srv = "simple" -> <<"echo", "get_current_time", "calculate">>
    [] srv = "standalone" -> <<"get_profile">>
    [] srv = "index" -> <<"echo", "get_current_time", "calculate">>
    [] srv = "profile" -> <<"get_profile">>
    [] srv = "enhanced" -> <<"get_profile", "calculate_stats">>
    [] srv = "medicine" -> <<"show-all-medicines", "get-user-profile", "show-medicine">>
    [] srv = "enhanced-http" -> <<"get-profile", "calculate-stats">>
    [] OTHER -> <<>>

\* faulty variant: the registries list a resource no handler knows
ConfiguredResourcesExtra(srv) ==
  CASE srv \in {"simple", "index"} ->
         <<"server://info", "server://capabilities", "nope://x">>
    [] srv \in {"standalone", "profile"} ->
         <<"profile://data", "profile://html", "nope://x">>
    [] srv = "enhanced" -> <<"profile://widget", "nope://x">>
    [] OTHER -> <<>>

ConfiguredResources(srv) ==
  CASE srv = "simple" -> <<"server://info", "server://capabilities">>
    [] srv = "standalone" -> <<"profile://data", "profile://html">>
    [] srv = "index" -> <<"server://info", "server://capabilities">>
    [] srv = "profile" -> <<"profile://data", "profile://html">>
    [] srv = "enhanced" -> <<"profile://widget">>
    [] OTHER -> <<>>

(***************************************************************************)
(* Tool handlers of simple-server.ts.                                      *)
(***************************************************************************)
\* the characters of the expression strings the model uses
CharsOf ==
  [e \in {"", "2 + 3 * 4", "1/0", "__proto__", "2 +"} |->
     CASE e = "2 + 3 * 4" -> <<"2", " ", "+", " ", "3", " ", "*", " ", "4">>
       [] e = "1/0" -> <<"1", "/", "0">>
       [] e = "__proto__" -> <<"_", "_", "p", "r", "o", "t", "o", "_", "_">>
       [] e = "2 +" -> <<"2", " ", "+">>
       [] OTHER -> <<>>]

AllowedChars ==
  {"0", "1", "2", "3", "4", "5", "6", "7", "8", "9",
   "+", "-", "*", "/", "(", ")", ".", " "}

IsAllowedChar(c) == c \in AllowedChars

\* expression.replace(/[^0-9+\-*/().\s]/g, "")
Sanitize(e) ==
  LET kept == SelectSeq(CharsOf[e], IsAllowedChar)
  IN CHOOSE t \in DOMAIN CharsOf : CharsOf[t] = kept

Infinity == [type |-> "infinity"]

\* eval(sanitized) of the JavaScript engine, on the sanitized strings above
Eval(t) ==
  CASE t = "2 + 3 * 4" -> Return(Num(14))
    [] t = "1/0" -> Return(Infinity)
    [] t = "" -> Return(Undefined)
    [] OTHER -> Throw(JsError("SyntaxError", "Unexpected end of input"))

\* args?.k
OptGet(args, k) ==
  IF args.type \in {"undefined", "null"} THEN Undefined ELSE Get(args, k)

TextBlock(t) == [type |-> "text", text |-> t]

NumText(x) == IF x.type = "infinity" THEN "Infinity" ELSE ToStr(x)

SimpleCalculate(args, id) ==
  LET expression == OrElse(OptGet(args, "expression"), Str(""))
  IN IF expression.type # "string"
     THEN ErrorEnvelopeData(id, InternalError, "Calculation error",
                            "expression.replace is not a function")
     ELSE LET r == Eval(Sanitize(expression.v))
          IN IF r.ok
             THEN ResultEnvelope(id,
                    [content |-> <<TextBlock(expression.v \o " = " \o NumText(r.value))>>])
             ELSE ErrorEnvelopeData(id, InternalError, "Calculation error",
                                    ErrorData(r.thrown))

\* const { name, arguments: args } = params  /  const { uri } = params
CanDestructure(params) == params.type \notin {"undefined", "null"}

DestructureError(params, k) ==
  JsError("TypeError",
          "Cannot destructure property '" \o k \o "' of 'params' as it is "
            \o ToStr(params) \o ".")

SimpleHandleToolCall(params, id, now) ==
  IF ~CanDestructure(params) THEN Throw(DestructureError(params, "name"))
  ELSE
    LET name == Get(params, "name")
        args == Get(params, "arguments")
    IN Return(
         CASE name = Str("echo") ->
                ResultEnvelope(id,
                  [content |-> <<TextBlock("Echo: " \o
                       ToStr(OrElse(OptGet(args, "text"), Str(""))))>>])
           [] name = Str("get_current_time") ->
                ResultEnvelope(id,
                  [content |-> <<TextBlock("Current time: " \o now)>>])
           [] name = Str("calculate") -> SimpleCalculate(args, id)
           [] OTHER ->
                ErrorEnvelope(id, MethodNotFound, "Unknown tool: " \o ToStr(name)))

SimpleHandleResourceRead(params, id) ==
  IF ~CanDestructure(params) THEN Throw(DestructureError(params, "uri"))
  ELSE
    LET uri == Get(params, "uri")
    IN Return(
         CASE uri = Str("server://info") ->
                ResultEnvelope(id,
                  [contents |-> <<[uri |-> uri.v, mimeType |-> "application/json",
                                   text |-> [name |-> "MCP Server Connection (Simple)"]]>>])
           [] uri = Str("server://capabilities") ->
                ResultEnvelope(id,
                  [contents |-> <<[uri |-> uri.v, mimeType |-> "application/json",
                                   text |-> [tools |-> tools, resources |-> resources]]>>])
           [] OTHER ->
                ErrorEnvelope(id, InvalidParams, "Unknown resource: " \o ToStr(uri)))

(***************************************************************************)
(* Tool and resource handlers of standalone-profile-server.ts.             *)
(***************************************************************************)
Profiles ==
  [k \in {"default", "admin"} |->
     IF k = "default"
     THEN [type |-> "profile", id |-> "EMP001", name |-> "Sarah Johnson",
           projects |-> 4, skills |-> 8]
     ELSE [type |-> "profile", id |-> "ADM001", name |-> "Michael Chen",
           projects |-> 3, skills |-> 8]]

\* keys every object literal inherits from Object.prototype
InheritedKeys == {"constructor"}

\* faulty variant: every lookup answers with the profile stored under "default"
GetProfileSyncFixed(profileId) == Profiles["default"]

\* profiles[profileId] || profiles["default"]
GetProfileSync(profileId) ==
  LET key == ToStr(profileId)
  IN IF key \in DOMAIN Profiles THEN Profiles[key]
     ELSE IF key \in InheritedKeys THEN [type |-> "inherited", key |-> key]
     ELSE Profiles["default"]

\* generateProfileHTML: profile.skills.map(...) throws on a value without skills
GenerateProfileHTML(profile) ==
  IF profile.type = "profile"
  THEN Return([html |-> profile.id])
  ELSE Throw(JsError("TypeError",
                     "Cannot read properties of undefined (reading 'map')"))

StandaloneHandleGetProfile(args, id) ==
  LET profileId == OrElse(OptGet(args, "profileId"), Str(defaultProfileId))
      profile == GetProfileSync(profileId)
      html == GenerateProfileHTML(profile)
  IN IF html.ok
     THEN ResultEnvelope(id,
            [content |-> <<TextBlock("Successfully fetched profile for " \o profile.name
                                     \o " Profile ID: " \o profile.id
                                     \o " Projects: " \o ToString(profile.projects)
                                     \o " Skills: " \o ToString(profile.skills)),
                           [type |-> "resource",
                            resource |-> [uri |-> "profile://html",
                                          mimeType |-> "text/html",
                                          text |-> html.value]]>>])
     ELSE ErrorEnvelopeData(id, InternalError, "Failed to fetch profile",
                            ErrorData(html.thrown))

StandaloneHandleToolCall(params, id) ==
  IF ~CanDestructure(params) THEN Throw(DestructureError(params, "name"))
  ELSE
    LET name == Get(params, "name")
        args == Get(params, "arguments")
    IN Return(IF name = Str("get_profile")
              THEN StandaloneHandleGetProfile(args, id)
              ELSE ErrorEnvelope(id, MethodNotFound,
                                 "Unknown tool: " \o ToStr(name)))

StandaloneHandleResourceRead(params, id) ==
  IF ~CanDestructure(params) THEN Throw(DestructureError(params, "uri"))
  ELSE
    LET uri == Get(params, "uri")
        profile == GetProfileSync(Str(defaultProfileId))
        html == GenerateProfileHTML(profile)
    IN Return(
         CASE uri = Str("profile://data") ->
                ResultEnvelope(id,
                  [contents |-> <<[uri |-> uri.v, mimeType |-> "application/json",
                                   text |-> profile]>>])
           [] uri = Str("profile://html") ->
                IF html.ok
                THEN ResultEnvelope(id,
                       [contents |-> <<[uri |-> uri.v, mimeType |-> "text/html",
                                        text |-> html.value]>>])
                ELSE ErrorEnvelopeData(id, InternalError, "Failed to read resource",
                                       ErrorData(html.thrown))
           [] OTHER ->
                ErrorEnvelope(id, InvalidParams, "Unknown resource: " \o ToStr(uri)))

(***************************************************************************)
(* handleRequest of simple-server.ts and standalone-profile-server.ts.     *)
(***************************************************************************)
ServerInfo(srv) ==
  IF srv = "simple"
  THEN [name |-> "mcp-server-connection", version |-> "1.0.0"]
  ELSE [name |-> "profile-mcp-server", version |-> "1.0.0"]

HandleToolCall(srv, params, id, now) ==
  IF srv = "simple" THEN SimpleHandleToolCall(params, id, now)
  ELSE StandaloneHandleToolCall(params, id)

HandleResourceRead(srv, params, id) ==
  IF srv = "simple" THEN SimpleHandleResourceRead(params, id)
  ELSE StandaloneHandleResourceRead(params, id)

\* faulty variant: tools/list answers with the first tool only
ToolsListFirstOnly == [tools |-> SubSeq(tools, 1, 1)]

\* the answer of tools/list
ToolsListResult == [tools |-> tools]

\* the answer of resources/list
ResourcesListResult == [resources |-> resources]

\* faulty variant: the default case reports an internal error
UnknownMethodInternal(id, method) ==
  ErrorEnvelope(id, InternalError, "Method not found: " \o ToStr(method))

\* the default case of the method switch
UnknownMethod(id, method) ==
  ErrorEnvelope(id, MethodNotFound, "Method not found: " \o ToStr(method))

\* which of handleToolCall / handleResourceRead the method switch calls
HandlersCalled(method) ==
  CASE method = Str("tools/call") -> {"handleToolCall"}
    [] method = Str("resources/read") -> {"handleResourceRead"}
    [] OTHER -> {}

\* the body of the try block: a returned envelope, or what a handler threw
RouteRequest(srv, method, params, id, now) ==
  CASE method = Str("initialize") ->
         Return(ResultEnvelope(id,
           [protocolVersion |-> "2024-11-05",
            capabilities |-> [tools |-> <<>>, resources |-> <<>>],
            serverInfo |-> ServerInfo(srv)]))
    [] method = Str("tools/list") -> Return(ResultEnvelope(id, ToolsListResult))
    [] method = Str("resources/list") ->
         Return(ResultEnvelope(id, ResourcesListResult))
    [] method = Str("tools/call") -> HandleToolCall(srv, params, id, now)
    [] method = Str("resources/read") -> HandleResourceRead(srv, params, id)
    [] OTHER -> Return(UnknownMethod(id, method))

\* faulty variant: no try block around the dispatch
HandleRequestNoCatch(srv, request, now) ==
  IF request.type \in {"undefined", "null"}
  THEN Throw(JsError("TypeError",
         "Cannot destructure property 'method' of 'request' as it is "
           \o ToStr(request) \o "."))
  ELSE RouteRequest(srv, Get(request, "method"), Get(request, "params"),
                    Get(request, "id"), now)

\* faulty variant: the catch block answers without the request's id
HandleRequestIdLost(srv, request, now) ==
  IF request.type \in {"undefined", "null"}
  THEN Throw(JsError("TypeError",
         "Cannot destructure property 'method' of 'request' as it is "
           \o ToStr(request) \o "."))
  ELSE
    LET body == RouteRequest(srv, Get(request, "method"), Get(request, "params"),
                             Get(request, "id"), now)
    IN IF body.ok THEN Return(body.value)
       ELSE Return(ErrorEnvelopeData(Undefined, InternalError, "Internal error",
                                     ErrorData(body.thrown)))

\* handleRequest: the destructuring of `request` is outside the try block
HandleRequest(srv, request, now) ==
  IF request.type \in {"undefined", "null"}
  THEN Throw(JsError("TypeError",
         "Cannot destructure property 'method' of 'request' as it is "
           \o ToStr(request) \o "."))
  ELSE
    LET method == Get(request, "method")
        params == Get(request, "params")
        id == Get(request, "id")
        body == RouteRequest(srv, method, params, id, now)
    IN IF body.ok THEN Return(body.value)
       ELSE Return(ErrorEnvelopeData(id, InternalError, "Internal error",
                                     ErrorData(body.thrown)))

(***************************************************************************)
(* The SDK-based servers: index.ts, profile-server.ts and the low-level    *)
(* handlers of enhanced-profile-server.ts.  A handler returns a result or  *)
(* throws; the SDK answers a thrown McpError with its code.                *)
(***************************************************************************)
McpError(code, msg) ==
  [type |-> "error", name |-> "McpError", code |-> code, message |-> msg]

IsMcpError(e) == e.type = "error" /\ e.name = "McpError"

\* String(error)
ErrorString(e) == IF e.type = "error" THEN e.name \o ": " \o e.message ELSE ToStr(e)

\* error instanceof Error ? error.message : String(error)
ErrorMessage(e) == IF e.type = "error" THEN e.message ELSE ToStr(e)

\* catch (error) { if (error instanceof McpError) throw error; throw new McpError(InternalError, ...) }
RethrowMcp(outcome, prefix) ==
  IF outcome.ok \/ IsMcpError(outcome.thrown) THEN outcome
  ELSE Throw(McpError(InternalError, prefix \o ErrorString(outcome.thrown)))

\* catch (error) { throw new McpError(InternalError, prefix + message) }
WrapInternal(outcome, prefix) ==
  IF outcome.ok THEN outcome
  ELSE Throw(McpError(InternalError, prefix \o ErrorMessage(outcome.thrown)))

\* the inner try block of calculate in index.ts (its check for "__" and
\* "constructor" cannot fire on a string of allowed characters)
IndexEvaluate(expression) ==
  LET sanitized == Sanitize(expression)
      r == Eval(sanitized)
  IN IF sanitized # expression
     THEN Throw(JsError("Error", "Invalid characters in expression. Only numbers, +, -, *, /, (, ), and spaces allowed."))
     ELSE IF ~r.ok THEN r
     ELSE IF r.value.type # "number"
     THEN Throw(JsError("Error", "Result is not a finite number"))
     ELSE Return([content |-> <<TextBlock(expression \o " = " \o ToStr(r.value))>>])

IndexCallTool(params, now) ==
  LET name == Get(params, "name")
      args == Get(params, "arguments")
      text == OptGet(args, "text")
      expression == OptGet(args, "expression")
      body ==
        CASE name = Str("echo") ->
               IF ~Truthy(text)
               THEN Throw(McpError(InvalidParams, "Text parameter is required"))
               ELSE Return([content |-> <<TextBlock("Echo: " \o ToStr(text))>>])
          [] name = Str("get_current_time") ->
               Return([content |-> <<TextBlock("Current time: " \o now)>>])
          [] name = Str("calculate") ->
               IF ~Truthy(expression)
               THEN Throw(McpError(InvalidParams, "Expression parameter is required"))
               ELSE WrapInternal(IndexEvaluate(expression.v), "Calculation error: ")
          [] OTHER -> Throw(McpError(MethodNotFound, "Unknown tool: " \o ToStr(name)))
  IN RethrowMcp(body, "Tool execution failed: ")

IndexReadResource(params) ==
  LET uri == Get(params, "uri")
  IN CASE uri = Str("server://info") ->
            Return([contents |-> <<[uri |-> uri.v, mimeType |-> "application/json",
                                    text |-> [name |-> "MCP Server Connection"]]>>])
       [] uri = Str("server://capabilities") ->
            Return([contents |-> <<[uri |-> uri.v, mimeType |-> "application/json",
                                    text |-> [tools |-> tools, resources |-> resources]]>>])
       [] OTHER -> Throw(McpError(InvalidParams, "Unknown resource: " \o ToStr(uri)))

\* fetchProfileFromAWS of profile-server.ts: a fixed record carrying the asked id
FetchProfileFromAWS(profileId) ==
  [type |-> "profile", id |-> ToStr(profileId), name |-> "John Doe",
   projects |-> 3, skills |-> 6]

ProfileCallTool(params) ==
  LET name == Get(params, "name")
      args == Get(params, "arguments")
      profileData == FetchProfileFromAWS(OrElse(OptGet(args, "profileId"), Str("default")))
      html == GenerateProfileHTML(profileData)
      body ==
        IF name = Str("get_profile")
        THEN IF html.ok
             THEN Return([content |-> <<TextBlock("Successfully fetched profile for "
                                                   \o profileData.name),
                                        [type |-> "resource",
                                         resource |-> [uri |-> "profile://html",
                                                       mimeType |-> "text/html",
                                                       text |-> html.value]]>>])
             ELSE html
        ELSE Throw(McpError(MethodNotFound, "Unknown tool: " \o ToStr(name)))
  IN WrapInternal(body, "Failed to execute tool: ")

ProfileReadResource(params) ==
  LET uri == Get(params, "uri")
      profileData == FetchProfileFromAWS(Str("default"))
      html == GenerateProfileHTML(profileData)
      body ==
        CASE uri = Str("profile://data") ->
               Return([contents |-> <<[uri |-> uri.v, mimeType |-> "application/json",
                                       text |-> profileData]>>])
          [] uri = Str("profile://html") ->
               IF html.ok
               THEN Return([contents |-> <<[uri |-> uri.v, mimeType |-> "text/html",
                                            text |-> html.value]>>])
               ELSE html
          [] OTHER -> Throw(McpError(InvalidParams, "Unknown resource: " \o ToStr(uri)))
  IN WrapInternal(body, "Failed to read resource: ")

EnhancedCalculateStats(args) ==
  LET profile == GetProfileSync(OrElse(OptGet(args, "profileId"), Str("default")))
      calculation == Get(args, "calculation")
  IN IF args.type \in {"undefined", "null"}
     THEN Throw(JsError("TypeError",
                        "Cannot read properties of undefined (reading 'calculation')"))
     ELSE IF calculation # Str("total_projects")
     THEN Throw(McpError(InvalidParams, "Invalid calculation type"))
     ELSE IF profile.type # "profile"
     THEN Throw(JsError("TypeError",
                        "Cannot read properties of undefined (reading 'length')"))
     ELSE Return([content |-> <<TextBlock("Total number of projects for " \o profile.name
                                           \o ": " \o ToString(profile.projects))>>])

EnhancedCallTool(params) ==
  LET name == Get(params, "name")
      args == Get(params, "arguments")
      profile == GetProfileSync(OrElse(OptGet(args, "profileId"), Str(defaultProfileId)))
      html == GenerateProfileHTML(profile)
      body ==
        CASE name = Str("get_profile") ->
               IF html.ok
               THEN Return([content |-> <<TextBlock("Profile loaded for " \o profile.name
                                                     \o " (" \o profile.id \o ")")>>])
               ELSE html
          [] name = Str("calculate_stats") -> EnhancedCalculateStats(args)
          [] OTHER -> Throw(McpError(MethodNotFound, "Unknown tool: " \o ToStr(name)))
  IN RethrowMcp(body, "Tool execution failed: ")

EnhancedReadResource(params) ==
  LET uri == Get(params, "uri")
  IN IF uri = Str("profile://widget")
     THEN Return([contents |-> <<[uri |-> uri.v, mimeType |-> "text/html",
                                  text |-> [html |-> Profiles["default"].id]]>>])
     ELSE Throw(McpError(InvalidParams, "Unknown resource: " \o ToStr(uri)))

SdkServers == {"index", "profile", "enhanced"}

\* the request handler registered for the method
SdkHandler(srv, method, params, now) ==
  CASE method = Str("tools/list") -> Return(ToolsListResult)
    [] method = Str("resources/list") -> Return(ResourcesListResult)
    [] method = Str("tools/call") ->
         CASE srv = "index" -> IndexCallTool(params, now)
           [] srv = "profile" -> ProfileCallTool(params)
           [] OTHER -> EnhancedCallTool(params)
    [] OTHER ->
         CASE srv = "index" -> IndexReadResource(params)
           [] srv = "profile" -> ProfileReadResource(params)
           [] OTHER -> EnhancedReadResource(params)

\* the envelope the SDK sends for a handler's outcome
SdkHandleRequest(srv, request, now) ==
  LET id == Get(request, "id")
      outcome == SdkHandler(srv, Get(request, "method"), Get(request, "params"), now)
  IN IF outcome.ok THEN ResultEnvelope(id, outcome.value)
     ELSE ErrorEnvelope(id,
            IF IsMcpError(outcome.thrown) THEN outcome.thrown.code ELSE InternalError,
            ErrorMessage(outcome.thrown))

(***************************************************************************)
(* JSON text.  A scalar is written as a token ("7" for the number 7,       *)
(* "\"7\"" for the string "7"), an object as its members; a member whose   *)
(* value is undefined is not written.                                      *)
(***************************************************************************)
StringsUsed ==
  {"", "7", "a", "2.0", "initialize", "tools/list", "resources/list", "tools/call",
   "resources/read", "foo/bar", "echo", "get_current_time", "calculate",
   "get_profile", "calculate_stats", "nope", "hi", "2 + 3 * 4", "1/0",
   "__proto__", "2 +", "server://info", "server://capabilities",
   "profile://data", "profile://html", "profile://widget", "nope://x",
   "default", "admin", "missing", "constructor", "total_projects"}

NumbersUsed == {0, 1, 5, 7}

Scalars == {Null} \cup {Num(n) : n \in NumbersUsed} \cup {Str(t) : t \in StringsUsed}

Quote(t) == "\"" \o t \o "\""

StringifyScalar(v) ==
  CASE v.type = "string" -> Quote(v.v)
    [] v.type = "number" -> ToString(v.v)
    [] OTHER -> "null"

RECURSIVE JSONStringify(_)
JSONStringify(v) ==
  CASE v.type = "object" ->
         [members |->
            [k \in {j \in DOMAIN v.props : v.props[j] # Undefined} |->
               JSONStringify(v.props[k])]]
    [] v.type = "array" -> [elems |-> <<>>]
    [] OTHER -> [tok |-> StringifyScalar(v)]

RECURSIVE JSONParse(_)
JSONParse(w) ==
  IF "tok" \in DOMAIN w
  THEN CHOOSE v \in Scalars : StringifyScalar(v) = w.tok
  ELSE IF "elems" \in DOMAIN w THEN Arr
  ELSE Obj([k \in DOMAIN w.members |-> JSONParse(w.members[k])])

\* JSON.stringify of a response envelope: the id is written unless undefined
StringifyEnvelope(env) ==
  [k \in {j \in DOMAIN env : j # "id" \/ env.id # Undefined} |->
     IF k = "id" THEN JSONStringify(env.id) ELSE env[k]]

(***************************************************************************)
(* Text on stdin: a sequence of newlines, whitespace, complete JSON texts  *)
(* and fragments that are no JSON text.                                    *)
(***************************************************************************)
NL == [k |-> "nl"]
SP == [k |-> "sp"]
Frag == [k |-> "frag"]
Doc(d) == [k |-> "doc", doc |-> d]

\* the JSON text d cut in two inside one of its tokens: neither part is a
\* JSON text, the head followed at once by the tail is d
DocHead(d) == [k |-> "head", doc |-> d]
DocTail(d) == [k |-> "tail", doc |-> d]

RECURSIVE SplitFrom(_, _)
\* text.split('\n'), with `cur` the segment being collected
SplitFrom(text, cur) ==
  IF text = <<>> THEN <<cur>>
  ELSE IF Head(text) = NL THEN <<cur>> \o SplitFrom(Tail(text), <<>>)
  ELSE SplitFrom(Tail(text), Append(cur, Head(text)))

Split(text) == SplitFrom(text, <<>>)

RECURSIVE TrimStart(_)
TrimStart(line) ==
  IF line # <<>> /\ Head(line) = SP THEN TrimStart(Tail(line)) ELSE line

RECURSIVE TrimEnd(_)
TrimEnd(line) ==
  IF line # <<>> /\ line[Len(line)] = SP
  THEN TrimEnd(SubSeq(line, 1, Len(line) - 1)) ELSE line

\* line.trim()
Trim(line) == TrimEnd(TrimStart(line))

\* JSON.parse(line): one JSON text, surrounded by optional whitespace
JSONParseLine(line) ==
  LET t == Trim(line)
  IN IF Len(t) = 1 /\ t[1].k = "doc" THEN Return(JSONParse(t[1].doc))
     ELSE IF Len(t) = 2 /\ t[1].k = "head" /\ t[2].k = "tail" /\ t[1].doc = t[2].doc
     THEN Return(JSONParse(t[1].doc))
     ELSE Throw(JsError("SyntaxError", "Unexpected token"))

\* the envelope the adapter's catch block writes
ParseErrorEnvelope(e) ==
  [jsonrpc |-> "2.0",
   error |-> [code |-> ParseError, message |-> "Parse error", data |-> ErrorData(e)]]

(***************************************************************************)
(* The stdio adapter: startStdioServer.                                    *)
(***************************************************************************)
\* faulty variant: a request without an id is handled but not answered
HandleLineSilentWithoutId(srv, line, out, log, now) ==
  LET parsed == JSONParseLine(line)
      handled == HandleRequest(srv, parsed.value, now)
      log2 == Append(log, [request |-> parsed.value, at |-> Len(out)])
  IN IF Trim(line) = <<>> THEN [out |-> out, log |-> log]
     ELSE IF ~parsed.ok
     THEN [out |-> Append(out, StringifyEnvelope(ParseErrorEnvelope(parsed.thrown))),
           log |-> log]
     ELSE IF handled.ok /\ Get(parsed.value, "id") = Undefined
     THEN [out |-> out, log |-> log2]
     ELSE IF handled.ok
     THEN [out |-> Append(out, StringifyEnvelope(handled.value)), log |-> log2]
     ELSE [out |-> Append(out, StringifyEnvelope(ParseErrorEnvelope(handled.thrown))),
           log |-> log2]

\* the body of the for loop: one line of the chunk
HandleLine(srv, line, out, log, now) ==
  LET parsed == JSONParseLine(line)
      handled == HandleRequest(srv, parsed.value, now)
      log2 == Append(log, [request |-> parsed.value, at |-> Len(out)])
  IN IF Trim(line) = <<>> THEN [out |-> out, log |-> log]
     ELSE IF ~parsed.ok
     THEN [out |-> Append(out, StringifyEnvelope(ParseErrorEnvelope(parsed.thrown))),
           log |-> log]
     ELSE IF handled.ok
     THEN [out |-> Append(out, StringifyEnvelope(handled.value)), log |-> log2]
     ELSE [out |-> Append(out, StringifyEnvelope(ParseErrorEnvelope(handled.thrown))),
           log |-> log2]

RECURSIVE ProcessLinesAbort(_, _, _, _, _)
\* faulty variant: the loop ends at the first line that does not parse
ProcessLinesAbort(srv, lines, out, log, now) ==
  IF lines = <<>> THEN [out |-> out, log |-> log]
  ELSE IF Trim(Head(lines)) # <<>> /\ ~JSONParseLine(Head(lines)).ok
  THEN [out |-> Append(out, StringifyEnvelope(
                              ParseErrorEnvelope(JSONParseLine(Head(lines)).thrown))),
        log |-> log]
  ELSE LET r == HandleLine(srv, Head(lines), out, log, now)
       IN ProcessLinesAbort(srv, Tail(lines), r.out, r.log, now)

RECURSIVE ProcessLinesLifo(_, _, _, _, _)
\* faulty variant: the loop takes the lines of a chunk last to first
ProcessLinesLifo(srv, lines, out, log, now) ==
  IF lines = <<>> THEN [out |-> out, log |-> log]
  ELSE LET r == HandleLine(srv, lines[Len(lines)], out, log, now)
       IN ProcessLinesLifo(srv, SubSeq(lines, 1, Len(lines) - 1), r.out, r.log, now)

RECURSIVE ProcessLines(_, _, _, _, _)
\* the for loop of the data listener over the complete lines
ProcessLines(srv, lines, out, log, now) ==
  IF lines = <<>> THEN [out |-> out, log |-> log]
  ELSE LET r == HandleLine(srv, Head(lines), out, log, now)
       IN ProcessLines(srv, Tail(lines), r.out, r.log, now)

StdioServers == {"simple", "standalone"}
Clock == {"2025-01-01T00:00:00.000Z"}
DefaultProfileIds == {"default", "admin"}

\* the place of the client's JSON text in a chunk
Hole == [k |-> "hole"]

\* the pieces of text a chunk is made of
Pieces == {<<NL>>, <<SP>>, <<Frag>>, <<Hole>>, <<Hole, NL>>, <<Frag, NL>>}

RECURSIVE ChunksOf(_)
ChunksOf(n) ==
  IF n = 0 THEN {<<>>}
  ELSE LET shorter == ChunksOf(n - 1)
       IN shorter \cup {c \o p : c \in shorter, p \in Pieces}

Chunks == ChunksOf(MaxPieces) \ {<<>>}

\* the chunks of at most n characters
ChunksWithin == [n \in 0..MaxInput |-> {c \in Chunks : Len(c) <= n}]

\* the chunk with the JSON text d in its place
Fill(chunk, d) ==
  [i \in 1..Len(chunk) |-> IF chunk[i] = Hole THEN Doc(d) ELSE chunk[i]]

\* faulty variant: the unterminated tail of a chunk is not kept for the next one
DataNoBuffer(chunk) ==
  /\ running
  /\ server \in StdioServers
  /\ "stdio" \in listening
  /\ Len(stdin) + Len(chunk) <= MaxInput
  /\ \E now \in Clock :
       LET segs == Split(chunk)
           lines == SubSeq(segs, 1, Len(segs) - 1)
           r == ProcessLines(server, lines, stdout, calls, now)
       IN /\ buffer' = segs[Len(segs)]
          /\ stdout' = r.out
          /\ calls' = r.log
  /\ stdin' = stdin \o chunk
  /\ UNCHANGED <<slotVars, startVars, server, httpLast, tools, resources, defaultProfileId, running, exitCode,
                 client, lastCall, userAccessToken, currentAccessToken, reqs>>

\* faulty variant: input is still read after the process has ended
DataAfterExit(chunk) ==
  /\ server \in StdioServers
  /\ "stdio" \in listening
  /\ Len(stdin) + Len(chunk) <= MaxInput
  /\ \E now \in Clock :
       LET segs == Split(buffer \o chunk)
           lines == SubSeq(segs, 1, Len(segs) - 1)
           r == ProcessLines(server, lines, stdout, calls, now)
       IN /\ buffer' = segs[Len(segs)]
          /\ stdout' = r.out
          /\ calls' = r.log
  /\ stdin' = stdin \o chunk
  /\ UNCHANGED <<slotVars, startVars, server, httpLast, tools, resources, defaultProfileId, running, exitCode,
                 client, lastCall, userAccessToken, currentAccessToken, reqs>>

\* process.stdin.on('data', ...)
Data(chunk) ==
  /\ running
  /\ server \in StdioServers
  /\ "stdio" \in listening
  /\ Len(stdin) + Len(chunk) <= MaxInput
  /\ \E now \in Clock :
       LET segs == Split(buffer \o chunk)
           lines == SubSeq(segs, 1, Len(segs) - 1)
           r == ProcessLines(server, lines, stdout, calls, now)
       IN /\ buffer' = segs[Len(segs)]
          /\ stdout' = r.out
          /\ calls' = r.log
  /\ stdin' = stdin \o chunk
  /\ UNCHANGED <<slotVars, startVars, server, httpLast, tools, resources, defaultProfileId, running, exitCode,
                 client, lastCall, userAccessToken, currentAccessToken, reqs>>

\* faulty variant: at end-of-input what is left in the buffer is answered
EndFlush ==
  /\ running
  /\ server \in StdioServers
  /\ running' = FALSE
  /\ exitCode' = 0
  /\ \E now \in Clock :
       LET r == ProcessLines(server, <<buffer>>, stdout, calls, now)
       IN stdout' = r.out /\ calls' = r.log
  /\ buffer' = <<>>
  /\ UNCHANGED <<slotVars, startVars, server, httpLast, tools, resources, defaultProfileId,
                 stdin, client, lastCall, userAccessToken, currentAccessToken, reqs>>

\* faulty variant: end-of-input ends the process with a failure code
EndFailure ==
  /\ running
  /\ server \in StdioServers
  /\ running' = FALSE
  /\ exitCode' = 1
  /\ UNCHANGED <<slotVars, startVars, server, httpLast, tools, resources, defaultProfileId, buffer, stdin, stdout,
                 calls, client, lastCall, userAccessToken, currentAccessToken, reqs>>

\* process.stdin.on('end', ...)
End ==
  /\ running
  /\ server \in StdioServers
  /\ running' = FALSE
  /\ exitCode' = 0
  /\ UNCHANGED <<slotVars, startVars, server, httpLast, tools, resources, defaultProfileId, buffer, stdin, stdout,
                 calls, client, lastCall, userAccessToken, currentAccessToken, reqs>>

\* process.on('SIGINT', ...)
Sigint ==
  /\ running
  /\ server \in StdioServers
  /\ running' = FALSE
  /\ exitCode' = 0
  /\ UNCHANGED <<slotVars, startVars, server, httpLast, tools, resources, defaultProfileId, buffer, stdin, stdout,
                 calls, client, lastCall, userAccessToken, currentAccessToken, reqs>>

(***************************************************************************)
(* The requests clients send.                                              *)
(***************************************************************************)
Field(k, v) == IF v = Undefined THEN <<>> ELSE (k :> v)

Request(id, method, params) ==
  Obj(Field("jsonrpc", Str("2.0")) @@ Field("id", id) @@ Field("method", method)
        @@ Field("params", params))

ToolCall(name, args) == Obj(Field("name", name) @@ Field("arguments", args))
ResourceRead(uri) == Obj(Field("uri", uri))
NoArgs == Obj(<<>>)

ToolCallParams ==
  {Undefined, NoArgs,
   ToolCall(Str("echo"), Obj(Field("text", Str("hi")))),
   ToolCall(Str("echo"), NoArgs),
   ToolCall(Str("get_current_time"), NoArgs),
   ToolCall(Str("calculate"), Undefined),
   ToolCall(Str("get_profile"), Undefined),
   ToolCall(Str("get_profile"), NoArgs),
   ToolCall(Str("calculate_stats"), Undefined),
   ToolCall(Str("calculate_stats"), Obj(Field("calculation", Str("total_projects")))),
   ToolCall(Str("calculate_stats"), Obj(Field("calculation", Str("nope")))),
   ToolCall(Str("nope"), NoArgs)}
  \cup {ToolCall(Str("calculate"), Obj(Field("expression", Str(e)))) :
          e \in {"2 + 3 * 4", "1/0", "__proto__", "2 +"}}
  \cup {ToolCall(Str("get_profile"), Obj(Field("profileId", Str(p)))) :
          p \in {"admin", "missing", "constructor"}}

ResourceReadParams ==
  {Undefined, NoArgs}
  \cup {ResourceRead(Str(u)) :
          u \in {"server://info", "server://capabilities", "profile://data",
                 "profile://html", "profile://widget", "nope://x"}}

Shapes ==
  {<<Str(m), Undefined>> :
      m \in {"initialize", "tools/list", "resources/list", "foo/bar"}}
  \cup {<<Undefined, Undefined>>}
  \cup {<<Str("tools/call"), p>> : p \in ToolCallParams}
  \cup {<<Str("resources/read"), p>> : p \in ResourceReadParams}

Requests ==
  {Request(id, sh[1], sh[2]) : id \in {Num(7), Str("7")}, sh \in Shapes}
  \cup {Request(id, Str(m), Undefined) :
          id \in {Null, Undefined}, m \in {"tools/list", "foo/bar"}}
  \cup {Request(Null, Str("tools/call"), p) : p \in {Undefined, ToolCall(Str("nope"), NoArgs)}}
  \cup {Request(Null, Str("resources/read"), ResourceRead(Str("nope://x")))}
  \cup {Request(Num(7), Str(m), Null) : m \in {"tools/call", "resources/read"}}

\* the JSON texts sent over stdin in the runs of the stdio adapter
StreamDocs ==
  {JSONStringify(r) :
     r \in {Request(Num(7), Str("tools/list"), Undefined),
            Request(Undefined, Str("tools/list"), Undefined),
            Request(Str("7"), Str("foo/bar"), Undefined),
            Request(Num(7), Str("tools/call"),
                    ToolCall(Str("echo"), Obj(Field("text", Str("hi"))))),
            Request(Str("a"), Str("tools/call"), Undefined),
            Request(Num(7), Str("tools/call"),
                    ToolCall(Str("calculate"), Obj(Field("expression", Str("2 +"))))),
            Request(Null, Str("resources/read"), ResourceRead(Str("nope://x"))),
            Null}}

(***************************************************************************)
(* The stdio servers: simple-server.ts, standalone-profile-server.ts.      *)
(***************************************************************************)
(***************************************************************************)
(* The slot modules: userAuthenticationService.ts and getUserToken.ts.     *)
(***************************************************************************)
SlotNames ==
  {"userAccessToken", "lc3Jwt", "lc3Id", "brand", "emailId", "officialBrandName",
   "savingsCardEnrolledYear"}

\* the values callers hand to a setter
SlotValues(n) ==
  CASE n = "savingsCardEnrolledYear" -> {Null, Num(0), Num(2024)}
    [] n \in {"userAccessToken", "userToken"} -> {Null, Str(""), Str("tokA"), Str("tokB")}
    [] OTHER -> {Null, Str(""), Str("x")}

\* the text of the error each require function throws
RequireMessage(n) ==
  CASE n = "userAccessToken" -> "Authentication required. Please log in via OAuth."
    [] n = "lc3Jwt" -> "LC3 JWT token not available."
    [] n = "lc3Id" -> "LC3 ID not available."
    [] n = "brand" -> "Brand not available."
    [] n = "emailId" -> "Email ID not available."
    [] n = "officialBrandName" -> "Official brand name not available."
    [] OTHER -> "Savings card enrollment year not available."

\* faulty variant: a token once stored is kept
SetSlotFirstWins(s, n, v) == IF Truthy(s[n]) THEN s ELSE [s EXCEPT ![n] = v]

\* the assignment in a setter
SetSlot(s, n, v) == [s EXCEPT ![n] = v]

\* faulty variant: only null counts as missing
RequireSlotNullOnly(n, value) ==
  IF value = Null THEN Throw(JsError("Error", RequireMessage(n))) ELSE Return(value)

\* if (!slot) throw new Error(...); return slot
RequireSlot(n, value) ==
  IF ~Truthy(value) THEN Throw(JsError("Error", RequireMessage(n))) ELSE Return(value)

NoSet == [type |-> "unset"]
NoSlotCall == [fn |-> "none"]

SlotsUntouched ==
  /\ slots = [n \in SlotNames |-> Null]
  /\ slotLog = [lastSet |-> [n \in SlotNames \cup {"userToken"} |-> NoSet],
                call |-> NoSlotCall, sets |-> 0]

Logged(n, v, call) ==
  [lastSet |-> IF v = NoSet THEN slotLog.lastSet ELSE [slotLog.lastSet EXCEPT ![n] = v],
   call |-> call,
   sets |-> IF v = NoSet THEN slotLog.sets ELSE slotLog.sets + 1]

\* setAccessToken, setLc3Jwt, ..., setSavingsCardEnrolledYear
SetCall(n, v) ==
  /\ slotLog.sets < MaxSets
  /\ slots' = SetSlot(slots, n, v)
  /\ slotLog' = Logged(n, v, [fn |-> "set", slot |-> n, outcome |-> Return(Undefined)])
  /\ UNCHANGED <<startVars, server, tools, resources, defaultProfileId, buffer, stdin,
                 stdout, calls, running, exitCode, client, lastCall, userAccessToken,
                 currentAccessToken, reqs, httpLast>>

\* requireAccessToken, requireLc3Jwt, ..., requireSavingsCardEnrolledYear
RequireCall(n) ==
  /\ slotLog' = Logged(n, NoSet, [fn |-> "require", slot |-> n,
                                  outcome |-> RequireSlot(n, slots[n])])
  /\ UNCHANGED <<startVars, slots, server, tools, resources, defaultProfileId, buffer,
                 stdin, stdout, calls, running, exitCode, client, lastCall,
                 userAccessToken, currentAccessToken, reqs, httpLast>>

\* getAccessToken()
GetAccessToken ==
  /\ slotLog' = Logged("userAccessToken", NoSet,
                       [fn |-> "get", slot |-> "userAccessToken",
                        outcome |-> Return(slots.userAccessToken)])
  /\ UNCHANGED <<startVars, slots, server, tools, resources, defaultProfileId, buffer,
                 stdin, stdout, calls, running, exitCode, client, lastCall,
                 userAccessToken, currentAccessToken, reqs, httpLast>>

\* no variable set and the start-up over, with the given transports in service
NoEnv == [RENDER |-> Undefined, PORT |-> Undefined]

Serving(modes) ==
  /\ processEnv = NoEnv
  /\ listening = modes
  /\ pending = {}
  /\ stderr = <<>>
  /\ startPc = "serving"

vars == <<server, tools, resources, defaultProfileId, buffer, stdin, stdout, calls,
          running, exitCode, client, lastCall, userAccessToken, currentAccessToken,
          reqs, httpLast, processEnv, listening, pending, stderr, startPc,
          slots, slotLog>>

NoCall == [request |-> Undefined]
NoExchange == [status |-> 0]

Init ==
  /\ server \in StdioServers
  /\ tools = ConfiguredTools(server)
  /\ resources = ConfiguredResources(server)
  /\ defaultProfileId = "default"
  /\ buffer = <<>>
  /\ stdin = <<>>
  /\ stdout = <<>>
  /\ calls = <<>>
  /\ running = TRUE
  /\ exitCode = 0
  /\ client \in StreamDocs
  /\ lastCall = NoCall
  /\ userAccessToken = Null
  /\ currentAccessToken = Null
  /\ reqs = <<>>
  /\ httpLast = NoExchange
  /\ SlotsUntouched
  /\ Serving({"stdio"})

Next ==
  \/ \E chunk \in ChunksWithin[MaxInput - Len(stdin)] : Data(Fill(chunk, client))
  \/ End
  \/ Sigint

Spec == Init /\ [][Next]_vars

(***************************************************************************)
(* Direct calls of the dispatchers, one request at a time, for every       *)
(* server variant.                                                         *)
(***************************************************************************)
AllServers == StdioServers \cup SdkServers

\* what the SDK hands to a registered handler: a request with an id, a
\* registered method and the params its schema requires
SdkAccepts(r) ==
  /\ Get(r, "id").type \in {"number", "string"}
  /\ \/ Get(r, "method") \in {Str("tools/list"), Str("resources/list")}
     \/ /\ Get(r, "method") = Str("tools/call")
        /\ Get(Get(r, "params"), "name").type = "string"
     \/ /\ Get(r, "method") = Str("resources/read")
        /\ Get(Get(r, "params"), "uri").type = "string"

RequestsOf(srv) ==
  IF srv \in SdkServers THEN {r \in Requests : SdkAccepts(r)} ELSE Requests

\* one request through a dispatcher: parsed from its JSON text, answered,
\* and the answer serialized
Dispatch(srv, doc, now) ==
  LET request == JSONParse(doc)
      handled == HandleRequest(srv, request, now)
  IN IF srv \in SdkServers
     THEN Return(StringifyEnvelope(SdkHandleRequest(srv, request, now)))
     ELSE IF handled.ok THEN Return(StringifyEnvelope(handled.value))
     ELSE handled

Call(doc) ==
  /\ \E now \in Clock :
       lastCall' = [doc |-> doc, request |-> JSONParse(doc),
                    handlers |-> HandlersCalled(Get(JSONParse(doc), "method")),
                    outcome |-> Dispatch(server, doc, now)]
  /\ UNCHANGED <<slotVars, startVars, server, httpLast, tools, resources, defaultProfileId, buffer, stdin, stdout,
                 calls, running, exitCode, client, userAccessToken,
                 currentAccessToken, reqs>>

InitDispatch ==
  /\ server \in AllServers
  /\ tools = ConfiguredTools(server)
  /\ resources = ConfiguredResources(server)
  /\ defaultProfileId \in (IF server \in {"standalone", "enhanced"}
                           THEN DefaultProfileIds ELSE {"default"})
  /\ buffer = <<>>
  /\ stdin = <<>>
  /\ stdout = <<>>
  /\ calls = <<>>
  /\ running = TRUE
  /\ exitCode = 0
  /\ client = JSONStringify(Null)
  /\ lastCall = NoCall
  /\ userAccessToken = Null
  /\ currentAccessToken = Null
  /\ reqs = <<>>
  /\ httpLast = NoExchange
  /\ SlotsUntouched
  /\ Serving({})

NextDispatch == \E doc \in {JSONStringify(r) : r \in RequestsOf(server)} : Call(doc)

SpecDispatch == InitDispatch /\ [][NextDispatch]_vars

(***************************************************************************)
(* The medicine server: the token middleware, the shared token slot of     *)
(* getUserToken.ts and the get-user-profile tool, for overlapping HTTP     *)
(* requests.  A request yields to the event loop where its code awaits.    *)
(***************************************************************************)
\* an Authorization header value is the text scheme \o rest
Header(scheme, rest) == [type |-> "string", scheme |-> scheme, rest |-> rest]
HeaderText(h) == h.scheme \o h.rest

Headers ==
  {Undefined, Header("Bearer ", "tokA"), Header("bearer ", "tokB"),
   Header("Basic ", "xyz"), Header("Bearer ", "")}

\* authHeader.replace(/^Bearer\s+/i, '')
StripBearer(h) ==
  IF h.scheme \in {"Bearer ", "bearer "} THEN h.rest ELSE HeaderText(h)

\* faulty variant: a request without a header leaves the stored token in place
TokenOfStale(h) ==
  IF h = Undefined THEN userAccessToken
  ELSE IF StripBearer(h) = "" \/ StripBearer(h) = HeaderText(h) THEN Null
  ELSE Str(StripBearer(h))

\* the token verifyToken stores for a header: null unless a bearer token remains
TokenOf(h) ==
  IF h = Undefined THEN Null
  ELSE IF StripBearer(h) = "" \/ StripBearer(h) = HeaderText(h) THEN Null
  ELSE Str(StripBearer(h))

\* verifyToken of the HTTP program of enhanced-profile-server.ts: whatever
\* the replace leaves is stored
EnhancedTokenOf(h) == IF h = Undefined THEN Null ELSE Str(StripBearer(h))

HttpServers == {"medicine", "enhanced-http"}

StoredToken(srv, h) == IF srv = "medicine" THEN TokenOf(h) ELSE EnhancedTokenOf(h)

\* faulty variant: whatever the slot holds is handed out
RequireUserTokenLenient(slot) == Return(slot)

\* requireUserToken()
RequireUserToken(slot) ==
  IF ~Truthy(slot)
  THEN Throw(JsError("Error", "Authentication required. Please log in via OAuth."))
  ELSE Return(slot)

RequestIds == 1..MaxRequests

\* a request reaches app.all('/mcp'): verifyToken runs, then the route handler
\* awaits transport.handleRequest
VerifyToken(r, h) ==
  /\ server \in HttpServers
  /\ r = Len(reqs) + 1
  /\ r \in RequestIds
  /\ currentAccessToken' = StoredToken(server, h)
  /\ userAccessToken' = IF server = "medicine" THEN TokenOf(h) ELSE userAccessToken
  /\ reqs' = Append(reqs, [pc |-> "routed", header |-> h,
                           accessToken |-> IF StoredToken(server, h) = Null
                                           THEN Undefined
                                           ELSE StoredToken(server, h),
                           userToken |-> Null, status |-> 0, late |-> FALSE,
                           outcome |-> Return(Null)])
  /\ UNCHANGED <<slotVars, startVars, server, httpLast, tools, resources, defaultProfileId, buffer, stdin, stdout,
                 calls, running, exitCode, client, lastCall>>

\* faulty variant: a handler starts only when every earlier request is done
ToolStartSerial(r) ==
  /\ r \in DOMAIN reqs
  /\ reqs[r].pc = "routed"
  /\ \A q \in 1..(r - 1) : reqs[q].pc = "done"
  /\ LET t == RequireUserToken(userAccessToken)
     IN reqs' = [reqs EXCEPT ![r] =
                   IF server = "enhanced-http" THEN [@ EXCEPT !.pc = "delaying"]
                   ELSE IF t.ok THEN [@ EXCEPT !.pc = "fetching", !.userToken = t.value]
                   ELSE [@ EXCEPT !.pc = "done", !.outcome = t]]
  /\ UNCHANGED <<slotVars, startVars, server, httpLast, tools, resources, defaultProfileId, buffer,
                 stdin, stdout, calls, running, exitCode, client, lastCall,
                 userAccessToken, currentAccessToken>>

\* a tool handler starts and runs to its first await: get-user-profile of
\* the medicine server calls requireUserToken() and issues the fetch,
\* get-profile of enhanced-profile-server.ts waits for its 500 ms timer
ToolStart(r) ==
  /\ r \in DOMAIN reqs
  /\ reqs[r].pc = "routed"
  /\ LET t == RequireUserToken(userAccessToken)
     IN reqs' = [reqs EXCEPT ![r] =
                   IF server = "enhanced-http" THEN [@ EXCEPT !.pc = "delaying"]
                   ELSE IF t.ok THEN [@ EXCEPT !.pc = "fetching", !.userToken = t.value]
                   ELSE [@ EXCEPT !.pc = "done", !.outcome = t]]
  /\ UNCHANGED <<slotVars, startVars, server, httpLast, tools, resources, defaultProfileId, buffer,
                 stdin, stdout, calls, running, exitCode, client, lastCall,
                 userAccessToken, currentAccessToken>>

\* the 500 ms timer of get-profile fires: the profile is looked up and returned
DelayElapsed(r) ==
  /\ r \in DOMAIN reqs
  /\ reqs[r].pc = "delaying"
  /\ reqs' = [reqs EXCEPT ![r] =
                [@ EXCEPT !.pc = "done",
                          !.outcome = Return([content |-> <<TextBlock("Profile loaded")>>])]]
  /\ UNCHANGED <<slotVars, startVars, server, httpLast, tools, resources, defaultProfileId, buffer,
                 stdin, stdout, calls, running, exitCode, client, lastCall,
                 userAccessToken, currentAccessToken>>

FetchResults == {"ok", "status", "network", "abort"}

\* await fetch(...) settles: the headers of a response arrive (2xx or
\* another status) and clearTimeout runs, the fetch fails with a network
\* error, or the 10 s timer fires and aborts it
FetchSettle(r, result) ==
  /\ server = "medicine"
  /\ r \in DOMAIN reqs
  /\ reqs[r].pc = "fetching"
  /\ reqs' = [reqs EXCEPT ![r] =
                CASE result = "ok" -> [@ EXCEPT !.pc = "reading", !.status = 200]
                  [] result = "status" -> [@ EXCEPT !.pc = "reading", !.status = 500]
                  [] result = "abort" ->
                       [@ EXCEPT !.pc = "done", !.late = TRUE,
                                 !.outcome = Throw(JsError("Error", "Request timed out"))]
                  [] OTHER ->
                       [@ EXCEPT !.pc = "done",
                                 !.outcome = Throw(JsError("TypeError", "fetch failed"))]]
  /\ UNCHANGED <<slotVars, startVars, server, httpLast, tools, resources, defaultProfileId, buffer, stdin, stdout,
                 calls, running, exitCode, client, lastCall, userAccessToken,
                 currentAccessToken>>

\* the 10 s since the fetch started pass while the body is being read: the
\* timer was cleared when the headers arrived, so nothing aborts the read
DeadlinePasses(r) ==
  /\ server = "medicine"
  /\ r \in DOMAIN reqs
  /\ reqs[r].pc = "reading"
  /\ ~reqs[r].late
  /\ reqs' = [reqs EXCEPT ![r].late = TRUE]
  /\ UNCHANGED <<slotVars, startVars, server, httpLast, tools, resources, defaultProfileId, buffer, stdin, stdout,
                 calls, running, exitCode, client, lastCall, userAccessToken,
                 currentAccessToken>>

BodyResults == {"ok", "network"}

\* faulty variant: the token sent is the one in the slot when the call ends
BodySettleLateToken(r, result) ==
  /\ server = "medicine"
  /\ r \in DOMAIN reqs
  /\ reqs[r].pc = "reading"
  /\ reqs' = [reqs EXCEPT ![r] =
                [@ EXCEPT !.pc = "done",
                          !.outcome =
                            CASE result = "network" ->
                                   Throw(JsError("TypeError", "terminated"))
                              [] reqs[r].status = 200 ->
                                   Return([content |-> <<TextBlock("Static data received")>>,
                                           sentToken |-> userAccessToken])
                              [] OTHER ->
                                   Throw(JsError("Error", "API request failed: 500"))]]
  /\ UNCHANGED <<slotVars, startVars, server, httpLast, tools, resources, defaultProfileId, buffer, stdin, stdout,
                 calls, running, exitCode, client, lastCall, userAccessToken,
                 currentAccessToken>>

\* await response.text() / await response.json() settles: the body was
\* read, or the connection broke while reading it
BodySettle(r, result) ==
  /\ server = "medicine"
  /\ r \in DOMAIN reqs
  /\ reqs[r].pc = "reading"
  /\ reqs' = [reqs EXCEPT ![r] =
                [@ EXCEPT !.pc = "done",
                          !.outcome =
                            CASE result = "network" ->
                                   Throw(JsError("TypeError", "terminated"))
                              [] reqs[r].status = 200 ->
                                   Return([content |-> <<TextBlock("Static data received")>>,
                                           sentToken |-> reqs[r].userToken])
                              [] OTHER ->
                                   Throw(JsError("Error", "API request failed: 500"))]]
  /\ UNCHANGED <<slotVars, startVars, server, httpLast, tools, resources, defaultProfileId, buffer, stdin, stdout,
                 calls, running, exitCode, client, lastCall, userAccessToken,
                 currentAccessToken>>

InitAuth ==
  /\ server \in HttpServers
  /\ tools = ConfiguredTools(server)
  /\ resources = ConfiguredResources(server)
  /\ defaultProfileId = "default"
  /\ buffer = <<>>
  /\ stdin = <<>>
  /\ stdout = <<>>
  /\ calls = <<>>
  /\ running = TRUE
  /\ exitCode = 0
  /\ client = JSONStringify(Null)
  /\ lastCall = NoCall
  /\ userAccessToken = Null
  /\ currentAccessToken = Null
  /\ reqs = <<>>
  /\ httpLast = NoExchange
  /\ SlotsUntouched
  /\ Serving({"http"})

NextAuth ==
  \/ \E r \in RequestIds, h \in Headers : VerifyToken(r, h)
  \/ \E r \in RequestIds : ToolStart(r)
  \/ \E r \in RequestIds : DelayElapsed(r)
  \/ \E r \in RequestIds, result \in FetchResults : FetchSettle(r, result)
  \/ \E r \in RequestIds : DeadlinePasses(r)
  \/ \E r \in RequestIds, result \in BodyResults : BodySettle(r, result)

SpecAuth == InitAuth /\ [][NextAuth]_vars

(***************************************************************************)
(* The HTTP adapter of standalone-profile-server.ts: express.json(), then  *)
(* the POST /mcp route.                                                    *)
(***************************************************************************)
ContentTypes == {"application/json", "text/plain"}

\* the bodies clients post: nothing, text that is no JSON, JSON scalars and
\* request envelopes
Bodies ==
  {<<>>, <<Frag>>, <<Doc(JSONStringify(Null))>>, <<Doc(JSONStringify(Num(7)))>>}
  \cup {<<Doc(JSONStringify(r))>> : r \in Requests}
  \cup {<<Doc(JSONStringify(r)), Frag>> : r \in {Request(Num(7), Str("tools/list"), Undefined)}}

HttpError(status, msg) ==
  [type |-> "error", name |-> "SyntaxError", status |-> status, message |-> msg]

\* app.use(express.json()): what the route finds in req.body, or the error
\* handed to next().  A request that is not parsed (other content type, no
\* body) is left with {} or with undefined, depending on the parser's version.
ExpressJson(contentType, text) ==
  IF contentType # "application/json" \/ text = <<>>
  THEN {Return(Obj(<<>>)), Return(Undefined)}
  ELSE IF ~JSONParseLine(text).ok
  THEN {Throw(HttpError(400, "Unexpected token"))}
  ELSE IF JSONParseLine(text).value.type \notin {"object", "array"}
  THEN {Throw(HttpError(400, "Unexpected token"))}
  ELSE {Return(JSONParseLine(text).value)}

\* no error middleware is registered: the framework's own handler answers
\* with the error's status and an HTML page
DefaultErrorHandler(err) == [status |-> err.status, kind |-> "html", body |-> err.message]

\* faulty variant: an error envelope is sent with status 500
PostMcpErrorStatus(body, now) ==
  LET handled == HandleRequest("standalone", body, now)
  IN IF handled.ok /\ "result" \in DOMAIN handled.value
     THEN [status |-> 200, kind |-> "json", body |-> StringifyEnvelope(handled.value)]
     ELSE [status |-> 500, kind |-> "json", body |-> [error |-> "Internal server error"]]

\* app.post('/mcp', ...)
PostMcp(body, now) ==
  LET handled == HandleRequest("standalone", body, now)
  IN IF handled.ok
     THEN [status |-> 200, kind |-> "json", body |-> StringifyEnvelope(handled.value)]
     ELSE [status |-> 400, kind |-> "json",
           body |-> StringifyEnvelope(ParseErrorEnvelope(handled.thrown))]

\* one POST /mcp: the body parser, then the route or the error handler
Post(contentType, text) ==
  /\ server = "standalone"
  /\ \E now \in Clock, parsed \in ExpressJson(contentType, text) :
       httpLast' = [contentType |-> contentType, text |-> text,
                    status |-> (IF parsed.ok THEN PostMcp(parsed.value, now)
                                ELSE DefaultErrorHandler(parsed.thrown)).status,
                    kind |-> (IF parsed.ok THEN PostMcp(parsed.value, now)
                              ELSE DefaultErrorHandler(parsed.thrown)).kind,
                    body |-> (IF parsed.ok THEN PostMcp(parsed.value, now)
                              ELSE DefaultErrorHandler(parsed.thrown)).body]
  /\ UNCHANGED <<slotVars, startVars, server, tools, resources, defaultProfileId, buffer, stdin, stdout,
                 calls, running, exitCode, client, lastCall, userAccessToken,
                 currentAccessToken, reqs>>

InitHttp ==
  /\ server = "standalone"
  /\ tools = ConfiguredTools(server)
  /\ resources = ConfiguredResources(server)
  /\ defaultProfileId \in DefaultProfileIds
  /\ buffer = <<>>
  /\ stdin = <<>>
  /\ stdout = <<>>
  /\ calls = <<>>
  /\ running = TRUE
  /\ exitCode = 0
  /\ client = JSONStringify(Null)
  /\ lastCall = NoCall
  /\ userAccessToken = Null
  /\ currentAccessToken = Null
  /\ reqs = <<>>
  /\ httpLast = NoExchange
  /\ SlotsUntouched
  /\ Serving({"http"})

NextHttp == \E contentType \in ContentTypes, text \in Bodies : Post(contentType, text)

SpecHttp == InitHttp /\ [][NextHttp]_vars

(***************************************************************************)
(* Properties of the dispatchers (SpecDispatch).                           *)
(***************************************************************************)
Called == "doc" \in DOMAIN lastCall
Answer == lastCall.outcome.value
CalledMethod == Get(lastCall.request, "method")
CalledParams == Get(lastCall.request, "params")
SentId == "id" \in DOMAIN lastCall.doc.members
KnownMethods ==
  {Str(m) : m \in {"initialize", "tools/list", "resources/list", "tools/call",
                   "resources/read"}}
Range(f) == {f[i] : i \in DOMAIN f}

\* C1: a request that carries an id and goes through handleRequest is answered
\* with the same id token: value and type (7 never comes back as "7")
C1_IdEchoed ==
  (Called /\ server \in StdioServers /\ SentId)
    => /\ lastCall.outcome.ok
       /\ "id" \in DOMAIN Answer
       /\ Answer.id = lastCall.doc.members.id

C1_NumericIdOnErrorPath ==
  /\ Called /\ server = "simple" /\ SentId
  /\ lastCall.doc.members.id = [tok |-> "7"]
  /\ lastCall.outcome.ok
  /\ "error" \in DOMAIN Answer
  /\ Answer.error.code = InternalError
  /\ Answer.id = [tok |-> "7"]

\* C3: after any calls, the registry is the configured one and tools/list
\* answers with exactly the configured tools, in order
C3_ToolsListStable ==
  /\ tools = ConfiguredTools(server)
  /\ resources = ConfiguredResources(server)
  /\ (Called /\ CalledMethod = Str("tools/list"))
       => /\ lastCall.outcome.ok
          /\ "result" \in DOMAIN Answer
          /\ Answer.result.tools = ConfiguredTools(server)

C3_ToolsListed ==
  /\ Called /\ server = "simple" /\ CalledMethod = Str("tools/list")
  /\ Answer.result.tools = <<"echo", "get_current_time", "calculate">>

\* C8: a method outside the five known ones is answered with -32601 and
\* "Method not found: <method>", the id kept, no handler called
C8_UnknownMethod ==
  (Called /\ server \in StdioServers /\ CalledMethod \notin KnownMethods)
    => /\ lastCall.outcome.ok
       /\ DOMAIN Answer \ {"id"} = {"jsonrpc", "error"}
       /\ Answer.error.code = MethodNotFound
       /\ Answer.error.message = "Method not found: " \o ToStr(CalledMethod)
       /\ SentId = ("id" \in DOMAIN Answer)
       /\ SentId => Answer.id = lastCall.doc.members.id
       /\ lastCall.handlers = {}

C8_UnknownMethodAnswered ==
  /\ Called /\ server = "standalone" /\ CalledMethod = Str("foo/bar") /\ SentId
  /\ lastCall.doc.members.id = [tok |-> "\"7\""]
  /\ Answer.error.code = MethodNotFound
  /\ Answer.error.message = "Method not found: foo/bar"
  /\ Answer.id = [tok |-> "\"7\""]

\* C9: in every server variant a tools/call naming an unregistered tool is
\* answered with error code -32601
C9_UnknownToolCode ==
  (/\ Called /\ CalledMethod = Str("tools/call") /\ CanDestructure(CalledParams)
   /\ Get(CalledParams, "name") \notin {Str(t) : t \in Range(ConfiguredTools(server))})
    => /\ lastCall.outcome.ok
       /\ "error" \in DOMAIN Answer
       /\ Answer.error.code = MethodNotFound

\* C10: in every server variant a resources/read of an unregistered URI is
\* answered with error code -32602
C10_UnknownResourceCode ==
  (/\ Called /\ CalledMethod = Str("resources/read") /\ CanDestructure(CalledParams)
   /\ Get(CalledParams, "uri") \notin {Str(u) : u \in Range(ConfiguredResources(server))})
    => /\ lastCall.outcome.ok
       /\ "error" \in DOMAIN Answer
       /\ Answer.error.code = InvalidParams

(***************************************************************************)
(* Properties of the stdio adapter (Spec).                                 *)
(***************************************************************************)
CompleteLines(text) == LET segs == Split(text) IN SubSeq(segs, 1, Len(segs) - 1)
IsNonBlank(line) == Trim(line) # <<>>
Malformed(line) == ~JSONParseLine(line).ok

\* the complete lines received so far that hold a non-whitespace character
Answerable == SelectSeq(CompleteLines(stdin), IsNonBlank)

TheClock == CHOOSE now \in Clock : TRUE

\* the line is a request that handleRequest answers with a result
Succeeds(line) ==
  /\ ~Malformed(line)
  /\ HandleRequest(server, JSONParseLine(line).value, TheClock).ok
  /\ "result" \in DOMAIN HandleRequest(server, JSONParseLine(line).value, TheClock).value

\* what the adapter writes for one non-blank line
ExpectedLine(line) ==
  LET parsed == JSONParseLine(line)
      handled == HandleRequest(server, parsed.value, TheClock)
  IN StringifyEnvelope(
       IF ~parsed.ok THEN ParseErrorEnvelope(parsed.thrown)
       ELSE IF handled.ok THEN handled.value
       ELSE ParseErrorEnvelope(handled.thrown))

\* C2: every envelope written has exactly one of result and error
C2_ResultXorError ==
  \A i \in 1..Len(stdout) :
    ("result" \in DOMAIN stdout[i]) # ("error" \in DOMAIN stdout[i])

C2_AllKindsWritten ==
  /\ Len(stdout) >= 2
  /\ "error" \in DOMAIN stdout[1]
  /\ stdout[1].error.code = InternalError
  /\ "error" \in DOMAIN stdout[2]
  /\ stdout[2].error.code = ParseError

\* C5: a complete line that is not well-formed JSON is answered with an
\* error envelope that has an id member, of value null, and code -32700
C5_ParseErrorIdNull ==
  \A k \in 1..Len(Answerable) :
    Malformed(Answerable[k])
      => /\ k <= Len(stdout)
         /\ "error" \in DOMAIN stdout[k]
         /\ stdout[k].error.code = ParseError
         /\ "id" \in DOMAIN stdout[k]
         /\ stdout[k].id = [tok |-> "null"]

\* C6: a malformed line after a valid one: both are answered (a result, then
\* -32700), every later valid line is answered too, and reading input never
\* ends the process
C6_AnsweredAfterMalformed ==
  LET lines == Answerable
  IN \A k \in 1..(Len(lines) - 1) :
       (Succeeds(lines[k]) /\ Malformed(lines[k + 1]))
         => /\ Len(stdout) = Len(lines)
            /\ "result" \in DOMAIN stdout[k]
            /\ "error" \in DOMAIN stdout[k + 1]
            /\ stdout[k + 1].error.code = ParseError
            /\ \A j \in (k + 2)..Len(lines) :
                 Succeeds(lines[j]) => "result" \in DOMAIN stdout[j]

C6_MalformedLineKeepsRunning ==
  [](C6_AnsweredAfterMalformed) /\ [][stdin' # stdin => running /\ running']_vars

C6_ValidMalformedValid ==
  /\ Len(Answerable) = 3
  /\ Succeeds(Answerable[1]) /\ Malformed(Answerable[2]) /\ Succeeds(Answerable[3])
  /\ Len(stdout) = 3
  /\ "result" \in DOMAIN stdout[3]
  /\ running

\* the positions, among the lines, of those handed to handleRequest
DispatchedAt(lines) ==
  LET ParsesAt(k) == ~Malformed(lines[k])
  IN SelectSeq([k \in 1..Len(lines) |-> k], ParsesAt)

\* C7: the k-th response answers the k-th line, and when the i-th request is
\* dispatched the responses of all lines before it are already written
C7_FifoNoOverlap ==
  LET lines == Answerable
      at == DispatchedAt(lines)
  IN /\ Len(stdout) = Len(lines)
     /\ \A k \in 1..Len(lines) : stdout[k] = ExpectedLine(lines[k])
     /\ Len(calls) = Len(at)
     /\ \A i \in 1..Len(calls) :
          /\ calls[i].at = at[i] - 1
          /\ calls[i].request = JSONParseLine(lines[at[i]]).value

C7_TwoLinesInOrder ==
  /\ Len(Answerable) >= 2
  /\ Len(stdout) >= 2
  /\ stdout[1] # stdout[2]
  /\ Len(calls) >= 2
  /\ calls[2].at = Len(stdout) - 1

(***************************************************************************)
(* Properties of the token slot under overlapping requests (SpecAuth).     *)
(***************************************************************************)
AuthRequired == Throw(JsError("Error", "Authentication required. Please log in via OAuth."))

\* C4: the handler of a request sent without an Authorization header never
\* obtains a token of another request: it fails as not authenticated
C4_NoTokenFromOtherRequest ==
  \A r \in DOMAIN reqs :
    (server = "medicine" /\ reqs[r].header = Undefined /\ reqs[r].pc # "routed")
      => /\ reqs[r].userToken = Null
         /\ reqs[r].pc = "done"
         /\ reqs[r].outcome = AuthRequired

(***************************************************************************)
(* Properties of failing handlers (SpecDispatch).                          *)
(***************************************************************************)
IsHandlerMethod == CalledMethod \in {Str("tools/call"), Str("resources/read")}

\* what the code run for the last call threw inside handleToolCall or
\* handleResourceRead, if anything: Throw(cause), or Return when nothing threw
HandlerCause ==
  LET name == Get(CalledParams, "name")
      args == Get(CalledParams, "arguments")
      uri == Get(CalledParams, "uri")
      expression == OrElse(OptGet(args, "expression"), Str(""))
  IN CASE ~IsHandlerMethod -> Return(Null)
       [] ~CanDestructure(CalledParams) ->
            Throw(DestructureError(CalledParams,
                    IF CalledMethod = Str("tools/call") THEN "name" ELSE "uri"))
       [] server = "simple" /\ CalledMethod = Str("tools/call")
            /\ name = Str("calculate") /\ expression.type = "string" ->
            Eval(Sanitize(expression.v))
       [] server = "standalone" /\ CalledMethod = Str("tools/call")
            /\ name = Str("get_profile") ->
            GenerateProfileHTML(GetProfileSync(
              OrElse(OptGet(args, "profileId"), Str(defaultProfileId))))
       [] server = "standalone" /\ CalledMethod = Str("resources/read")
            /\ uri = Str("profile://html") ->
            GenerateProfileHTML(GetProfileSync(Str(defaultProfileId)))
       [] OTHER -> Return(Null)

\* C11: when a handler throws during tools/call or resources/read the answer
\* is an error envelope with code -32603, the request's id and the cause's
\* text as data, and it has no result member
C11_HandlerThrowIsInternalError ==
  (Called /\ server \in StdioServers /\ ~HandlerCause.ok)
    => /\ lastCall.outcome.ok
       /\ DOMAIN Answer \ {"id"} = {"jsonrpc", "error"}
       /\ Answer.error.code = InternalError
       /\ "data" \in DOMAIN Answer.error
       /\ Answer.error.data = ErrorData(HandlerCause.thrown)
       /\ SentId = ("id" \in DOMAIN Answer)
       /\ SentId => Answer.id = lastCall.doc.members.id

C11_GetProfileThrew ==
  /\ Called /\ server = "standalone" /\ CalledMethod = Str("tools/call")
  /\ Get(CalledParams, "name") = Str("get_profile")
  /\ ~HandlerCause.ok
  /\ Answer.error.code = InternalError
  /\ Answer.error.message = "Failed to fetch profile"
  /\ Answer.error.data = "Cannot read properties of undefined (reading 'map')"
  /\ Answer.id = [tok |-> "7"]

RegisteredTool ==
  /\ CalledMethod = Str("tools/call")
  /\ CanDestructure(CalledParams)
  /\ Get(CalledParams, "name") \in {Str(t) : t \in Range(ConfiguredTools(server))}

\* C12: every failure of a registered tool's handler (missing argument,
\* invalid input, failing lookup) is answered with code -32603; a missing
\* required argument is never answered with -32602
C12_FailuresAreInternal ==
  (Called /\ RegisteredTool /\ lastCall.outcome.ok /\ "error" \in DOMAIN Answer)
    => Answer.error.code = InternalError

(***************************************************************************)
(* Properties of the token middleware (SpecAuth).                          *)
(***************************************************************************)
LastHeader == reqs[Len(reqs)].header

\* the header starts with "Bearer" in any letter case and a token follows
UsableBearer(h) ==
  h # Undefined /\ h.scheme \in {"Bearer ", "bearer "} /\ h.rest # ""

\* the slot the tools of the running program read
TokenSlot == IF server = "medicine" THEN userAccessToken ELSE currentAccessToken

C14_BearerPrefixStripped ==
  (reqs # <<>> /\ LastHeader # Undefined)
    => IF UsableBearer(LastHeader)
       THEN currentAccessToken = Str(LastHeader.rest)
       ELSE ~Truthy(currentAccessToken)

(***************************************************************************)
(* Properties of the HTTP adapter (SpecHttp).                              *)
(***************************************************************************)
Posted == httpLast # NoExchange

\* the posted body is one JSON object sent as application/json
PostedRequest ==
  /\ Posted
  /\ httpLast.contentType = "application/json"
  /\ ~Malformed(httpLast.text)
  /\ JSONParseLine(httpLast.text).value.type = "object"

\* C15: a POST whose body, sent as application/json, is not well-formed JSON
\* is answered with status 400 and a JSON error envelope with code -32700
\* and message "Parse error"
C15_MalformedBodyParseError ==
  (/\ Posted /\ httpLast.contentType = "application/json"
   /\ httpLast.text # <<>> /\ Malformed(httpLast.text))
    => /\ httpLast.status = 400
       /\ httpLast.kind = "json"
       /\ "error" \in DOMAIN httpLast.body
       /\ httpLast.body.error.code = ParseError
       /\ httpLast.body.error.message = "Parse error"

ProfileServers == {"standalone", "enhanced"}

GetProfileCalled ==
  /\ Called /\ server \in ProfileServers
  /\ CalledMethod = Str("tools/call") /\ CanDestructure(CalledParams)
  /\ Get(CalledParams, "name") = Str("get_profile")

AskedProfileId == OptGet(Get(CalledParams, "arguments"), "profileId")

\* the answer is a result that shows the profile p
ShowsProfile(p) ==
  /\ lastCall.outcome.ok
  /\ "result" \in DOMAIN Answer
  /\ "error" \notin DOMAIN Answer
  /\ IF server = "standalone"
     THEN /\ Answer.result.content[1].text =
               "Successfully fetched profile for " \o p.name
                 \o " Profile ID: " \o p.id
                 \o " Projects: " \o ToString(p.projects)
                 \o " Skills: " \o ToString(p.skills)
          /\ Answer.result.content[2].resource.text = [html |-> p.id]
     ELSE Answer.result.content[1].text =
            "Profile loaded for " \o p.name \o " (" \o p.id \o ")"

C18_MissFallsBackToConfiguredDefault ==
  (/\ GetProfileCalled
   /\ AskedProfileId.type = "string"
   /\ AskedProfileId.v # ""
   /\ AskedProfileId.v \notin DOMAIN Profiles)
    => ShowsProfile(Profiles[defaultProfileId])

(***************************************************************************)
(* Properties of calculate (SpecDispatch).                                 *)
(***************************************************************************)
CalculateServers == {"simple", "index"}

CalculateCalled ==
  /\ Called /\ server \in CalculateServers
  /\ CalledMethod = Str("tools/call") /\ CanDestructure(CalledParams)
  /\ Get(CalledParams, "name") = Str("calculate")
  /\ OptGet(Get(CalledParams, "arguments"), "expression").type = "string"

AskedExpression == OptGet(Get(CalledParams, "arguments"), "expression").v

HasDisallowedChar(e) ==
  \E i \in 1..Len(CharsOf[e]) : ~IsAllowedChar(CharsOf[e][i])

AnsweredWithError ==
  /\ lastCall.outcome.ok
  /\ "error" \in DOMAIN Answer
  /\ "result" \notin DOMAIN Answer

\* C19: calculate answers with a failure, never with a result, for every
\* expression holding a character other than digits, + - * / ( ) . and
\* whitespace
C19_DisallowedCharsRejected ==
  (CalculateCalled /\ HasDisallowedChar(AskedExpression)) => AnsweredWithError

\* the value of the expression, as the engine computes it, is not finite
NonFinite(e) == Eval(Sanitize(e)) = Return(Infinity)

\* C20: calculate never answers with a result for an expression whose value
\* is not finite (a division by zero): it answers with a failure
C20_NonFiniteRejected ==
  (CalculateCalled /\ NonFinite(AskedExpression)) => AnsweredWithError

(***************************************************************************)
(* Properties of echo (SpecDispatch).                                      *)
(***************************************************************************)
EchoCalled ==
  /\ Called /\ server \in {"simple", "index"}
  /\ CalledMethod = Str("tools/call") /\ CanDestructure(CalledParams)
  /\ Get(CalledParams, "name") = Str("echo")

AskedText == OptGet(Get(CalledParams, "arguments"), "text")

\* C21: echo without a text argument is answered with an error; echo with
\* the text t is answered with a result holding the one text block "Echo: t"
C21_EchoNeedsText ==
  EchoCalled
    => IF AskedText = Undefined
       THEN AnsweredWithError
       ELSE /\ lastCall.outcome.ok
            /\ "result" \in DOMAIN Answer
            /\ Answer.result.content = <<TextBlock("Echo: " \o ToStr(AskedText))>>

(***************************************************************************)
(* Properties of the end of the stream (SpecChunks).                       *)
(***************************************************************************)
\* C22: the step taken at end-of-input ends the process with exit code 0,
\* and at that step every complete line received has its response written
C22_EndExitsZeroAfterAnswers ==
  [][End => LET lines == Answerable'
            IN /\ ~running'
               /\ exitCode' = 0
               /\ Len(stdout') = Len(lines)
               /\ \A k \in 1..Len(lines) : stdout'[k] = ExpectedLine(lines[k])]_vars

C22_EndedAfterAnswer ==
  /\ ~running
  /\ exitCode = 0
  /\ Len(Answerable) >= 1
  /\ Len(stdout) = Len(Answerable)
  /\ buffer # <<>>

TimedOut == Throw(JsError("Error", "Request timed out"))

\* C24: a call whose fixed timeout has passed before the backing service
\* completed, the reading of the response body included, has failed with
\* the timeout failure, and no other failure looks like the timeout failure
C24_TimeoutCoversWholeExchange ==
  \A r \in DOMAIN reqs :
    /\ reqs[r].late => (reqs[r].pc = "done" /\ reqs[r].outcome = TimedOut)
    /\ (reqs[r].pc = "done" /\ reqs[r].outcome = TimedOut) => reqs[r].late

(***************************************************************************)
(* The start-up of standalone-profile-server.ts and of the first program   *)
(* of enhanced-profile-server.ts: the transports put in service, the       *)
(* banners written, and the first requests served over stdio.              *)
(***************************************************************************)
\* one console.log / console.error line that is no response
Banner(text) == [log |-> text]

\* if (process.env.RENDER || process.env.PORT)
HttpSelected == Truthy(OrElse(processEnv.RENDER, processEnv.PORT))

\* the console.error lines of startStdioServer
StdioBanners ==
  <<Banner("started successfully!"), Banner("Environment"), Banner("Available tools"),
    Banner("Available profiles"), Banner("Default profile")>>

\* the console.log lines of the app.listen callback
ListenBanners(srv) ==
  IF srv = "standalone"
  THEN <<Banner("HTTP server started!"), Banner("Server running on port"),
         Banner("Environment"), Banner("Available endpoints"), Banner("GET /health"),
         Banner("GET /"), Banner("POST /mcp"), Banner("GET /profile/:id")>>
       \o (IF Truthy(processEnv.RENDER) THEN <<Banner("Running on Render")>> ELSE <<>>)
  ELSE <<Banner("HTTP Health server running on port"), Banner("Available profiles"),
         Banner("Environment")>>

\* profileServer.startStdioServer(): the listeners are registered and the
\* banners written
StartStdioServer ==
  /\ server = "standalone"
  /\ startPc = "main"
  /\ ~HttpSelected
  /\ listening' = {"stdio"}
  /\ stderr' = stderr \o StdioBanners
  /\ startPc' = "serving"
  /\ UNCHANGED <<slotVars, server, tools, resources, defaultProfileId, buffer, stdin, stdout, calls,
                 running, exitCode, client, lastCall, userAccessToken, currentAccessToken,
                 reqs, httpLast, processEnv, pending>>

\* profileServer.startHttpServer(): app.listen(port, '0.0.0.0', callback)
StartHttpServer ==
  /\ server = "standalone"
  /\ startPc = "main"
  /\ HttpSelected
  /\ pending' = {"listening"}
  /\ startPc' = "serving"
  /\ UNCHANGED <<slotVars, server, tools, resources, defaultProfileId, buffer, stdin, stdout, calls,
                 running, exitCode, client, lastCall, userAccessToken, currentAccessToken,
                 reqs, httpLast, processEnv, listening, stderr>>

\* startServer() up to its await: app.listen(PORT, '0.0.0.0', callback), then
\* server.connect(new StdioServerTransport())
StartServer ==
  /\ server = "enhanced"
  /\ startPc = "main"
  /\ pending' = {"listening"}
  /\ listening' = {"stdio"}
  /\ startPc' = "connecting"
  /\ UNCHANGED <<slotVars, server, tools, resources, defaultProfileId, buffer, stdin, stdout, calls,
                 running, exitCode, client, lastCall, userAccessToken, currentAccessToken,
                 reqs, httpLast, processEnv, stderr>>

\* startServer() after its await: the two console.error lines
Connected ==
  /\ server = "enhanced"
  /\ startPc = "connecting"
  /\ stderr' = stderr \o <<Banner("started successfully"), Banner("Ready for ChatGPT")>>
  /\ startPc' = "serving"
  /\ UNCHANGED <<slotVars, server, tools, resources, defaultProfileId, buffer, stdin, stdout, calls,
                 running, exitCode, client, lastCall, userAccessToken, currentAccessToken,
                 reqs, httpLast, processEnv, listening, pending>>

\* the callback given to app.listen runs, in a later turn of the event loop:
\* the port is bound
ListenCallback ==
  /\ "listening" \in pending
  /\ startPc = "serving"
  /\ pending' = {}
  /\ listening' = listening \cup {"http"}
  /\ stdout' = stdout \o ListenBanners(server)
  /\ UNCHANGED <<slotVars, server, tools, resources, defaultProfileId, buffer, stdin, calls,
                 running, exitCode, client, lastCall, userAccessToken, currentAccessToken,
                 reqs, httpLast, processEnv, stderr, startPc>>

\* a request arrives on the stdio transport of an SDK server and is answered
SdkData(doc) ==
  /\ server \in SdkServers
  /\ "stdio" \in listening
  /\ startPc = "serving"
  /\ Len(calls) < MaxRequests
  /\ \E now \in Clock :
       stdout' = Append(stdout,
                        StringifyEnvelope(SdkHandleRequest(server, JSONParse(doc), now)))
  /\ calls' = Append(calls, [request |-> JSONParse(doc), at |-> Len(stdout)])
  /\ UNCHANGED <<slotVars, startVars, server, tools, resources, defaultProfileId, buffer, stdin,
                 running, exitCode, client, lastCall, userAccessToken, currentAccessToken,
                 reqs, httpLast>>

\* the requests sent right after the start
StartDocs ==
  {JSONStringify(r) :
     r \in {Request(Num(7), Str("tools/list"), Undefined),
            Request(Num(7), Str("tools/call"), ToolCall(Str("get_profile"), NoArgs))}}

EnvValues == [RENDER : {Undefined, Str(""), Str("true")},
              PORT : {Undefined, Str(""), Str("10000")}]

InitStart ==
  /\ server \in {"standalone", "enhanced"}
  /\ tools = ConfiguredTools(server)
  /\ resources = ConfiguredResources(server)
  /\ defaultProfileId = "default"
  /\ buffer = <<>>
  /\ stdin = <<>>
  /\ stdout = <<>>
  /\ calls = <<>>
  /\ running = TRUE
  /\ exitCode = 0
  /\ client = JSONStringify(Null)
  /\ lastCall = NoCall
  /\ userAccessToken = Null
  /\ currentAccessToken = Null
  /\ reqs = <<>>
  /\ httpLast = NoExchange
  /\ SlotsUntouched
  /\ processEnv \in EnvValues
  /\ listening = {}
  /\ pending = {}
  /\ stderr = <<>>
  /\ startPc = "main"

NextStart ==
  \/ StartStdioServer
  \/ StartHttpServer
  \/ StartServer
  \/ Connected
  \/ ListenCallback
  \/ \E doc \in StartDocs : Data(<<Doc(doc), NL>>)
  \/ \E doc \in StartDocs : SdkData(doc)

SpecStart == InitStart /\ [][NextStart]_vars

(***************************************************************************)
(* Properties of the start-up (SpecStart).                                 *)
(***************************************************************************)
\* the start-up code has run to its end and no callback of it is waiting
StartedUp == startPc = "serving" /\ pending = {}

\* C25: once started a process has exactly one transport in service, the
\* stdio stream or the HTTP listener, and the standalone server has the
\* HTTP listener exactly when RENDER or PORT is set
C25_ExactlyOneStartMode ==
  StartedUp
    => /\ Cardinality(listening) = 1
       /\ server = "standalone"
            => ("http" \in listening
                  <=> (Truthy(processEnv.RENDER) \/ Truthy(processEnv.PORT)))

\* a line that is a serialized response envelope
IsEnvelope(line) == "jsonrpc" \in DOMAIN line

\* C26: while the stdio transport is in service every line on stdout is a
\* response envelope, and banners and diagnostics are on stderr only
C26_StdoutOnlyEnvelopes ==
  "stdio" \in listening
    => /\ \A i \in 1..Len(stdout) : IsEnvelope(stdout[i])
       /\ \A i \in 1..Len(stderr) : ~IsEnvelope(stderr[i])

(***************************************************************************)
(* Properties of handleRequest under failing handlers (SpecDispatch).      *)
(***************************************************************************)
\* C27: for every request object that is a tools/call or a resources/read,
\* whatever its params, handleRequest returns an envelope, with exactly one
\* of result and error, and throws nothing
C27_NoThrowEscapes ==
  (Called /\ server \in StdioServers /\ lastCall.request.type = "object"
     /\ IsHandlerMethod)
    => /\ lastCall.outcome.ok
       /\ "jsonrpc" \in DOMAIN Answer
       /\ ("result" \in DOMAIN Answer) # ("error" \in DOMAIN Answer)

C27_ThrowsCaught ==
  /\ Called /\ server \in StdioServers /\ IsHandlerMethod
  /\ ~HandlerCause.ok
  /\ \/ CalledParams = Undefined
     \/ /\ CalledMethod = Str("tools/call")
        /\ CanDestructure(CalledParams)
        /\ Get(CalledParams, "arguments") = Undefined
  /\ lastCall.outcome.ok
  /\ "error" \in DOMAIN Answer

(***************************************************************************)
(* The stdio adapter fed with request lines cut into chunks at any place,  *)
(* inside the JSON text included.                                          *)
(***************************************************************************)
\* the chunks a client cuts its lines into
SplitChunks(d) ==
  {<<NL>>, <<SP>>, <<DocHead(d)>>, <<DocTail(d)>>, <<DocTail(d), NL>>,
   <<DocHead(d), DocTail(d), NL>>, <<DocTail(d), NL, DocHead(d)>>}

SplitDocs ==
  {JSONStringify(r) :
     r \in {Request(Num(7), Str("tools/list"), Undefined),
            Request(Str("a"), Str("tools/call"), Undefined),
            Request(Num(7), Str("tools/call"), NoArgs)}}

InitChunks ==
  /\ server \in StdioServers
  /\ tools = ConfiguredTools(server)
  /\ resources = ConfiguredResources(server)
  /\ defaultProfileId = "default"
  /\ buffer = <<>>
  /\ stdin = <<>>
  /\ stdout = <<>>
  /\ calls = <<>>
  /\ running = TRUE
  /\ exitCode = 0
  /\ client \in SplitDocs
  /\ lastCall = NoCall
  /\ userAccessToken = Null
  /\ currentAccessToken = Null
  /\ reqs = <<>>
  /\ httpLast = NoExchange
  /\ SlotsUntouched
  /\ Serving({"stdio"})

NextChunks ==
  \/ \E chunk \in SplitChunks(client) : Data(chunk)
  \/ End
  \/ Sigint

SpecChunks == InitChunks /\ [][NextChunks]_vars

(***************************************************************************)
(* Properties of chunked input (SpecChunks).                               *)
(***************************************************************************)
\* what the adapter has written and kept after receiving `text` in one chunk
InOneChunk(text) ==
  LET segs == Split(text)
      r == ProcessLines(server, SubSeq(segs, 1, Len(segs) - 1), <<>>, <<>>, TheClock)
  IN [out |-> r.out, buffer |-> segs[Len(segs)]]

\* the characters received in this step
Received == SubSeq(stdin', Len(stdin) + 1, Len(stdin'))

\* C28: the responses written are those of the received input delivered in
\* one chunk, however it was cut, and a chunk without a newline produces no
\* output
C28_ChunkingInvisible ==
  /\ [](LET whole == InOneChunk(stdin)
        IN stdout = whole.out /\ buffer = whole.buffer)
  /\ [][stdout' # stdout => \E i \in 1..Len(Received) : Received[i] = NL]_vars

C28_LineInFourChunks ==
  /\ stdin = <<DocHead(client), DocTail(client), SP, NL>>
  /\ Len(stdout) = 1
  /\ stdout[1] = StringifyEnvelope(HandleRequest(server, JSONParse(client), TheClock).value)
  /\ buffer = <<>>

\* the request on the line is a tools/call without params, or with params
\* that have no name
NamelessToolCall(line) ==
  /\ ~Malformed(line)
  /\ Get(JSONParseLine(line).value, "method") = Str("tools/call")
  /\ Get(Get(JSONParseLine(line).value, "params"), "name") = Undefined

\* C29: a tools/call line without params, or with params without a name, is
\* answered with an error envelope that carries the request's id, with code
\* -32603 when params is absent, and every line after it is answered too
C29_NamelessToolCallAnswered ==
  LET lines == Answerable
  IN \A k \in 1..Len(lines) :
       NamelessToolCall(lines[k])
         => LET request == JSONParseLine(lines[k]).value
            IN /\ Len(stdout) = Len(lines)
               /\ DOMAIN stdout[k] = {"jsonrpc", "id", "error"}
               /\ stdout[k].id = JSONStringify(Get(request, "id"))
               /\ Get(request, "params") = Undefined
                    => stdout[k].error.code = InternalError

C29_ServedAfterNameless ==
  /\ Len(Answerable) = 2
  /\ NamelessToolCall(Answerable[1])
  /\ NamelessToolCall(Answerable[2])
  /\ Get(JSONParseLine(Answerable[1]).value, "params") # Undefined
  /\ Len(stdout) = 2
  /\ stdout[1].error.code = MethodNotFound
  /\ stdout[2] = stdout[1]

(***************************************************************************)
(* Properties of the error codes (SpecDispatch).                           *)
(***************************************************************************)
StandardCodes == {ParseError, MethodNotFound, InvalidParams, InternalError}

\* C30: every error envelope carries one of the codes -32700, -32601,
\* -32602, -32603, and -32602 only answers a resources/read whose URI is
\* none of the declared ones
C30_InvalidParamsOnlyForResources ==
  (Called /\ lastCall.outcome.ok /\ "error" \in DOMAIN Answer)
    => /\ Answer.error.code \in StandardCodes
       /\ Answer.error.code = InvalidParams
            => /\ CalledMethod = Str("resources/read")
               /\ OptGet(CalledParams, "uri") \notin {Str(u) : u \in Range(resources)}

(***************************************************************************)
(* Properties of overlapping HTTP requests (SpecAuth).                     *)
(***************************************************************************)
Suspended(r) == reqs[r].pc \in {"fetching", "reading", "delaying"}

SetUserToken(v) ==
  /\ slotLog.sets < MaxSets
  /\ userAccessToken' = v
  /\ slotLog' = Logged("userToken", v,
                       [fn |-> "set", slot |-> "userToken", outcome |-> Return(Undefined)])
  /\ UNCHANGED <<startVars, slots, server, tools, resources, defaultProfileId, buffer,
                 stdin, stdout, calls, running, exitCode, client, lastCall,
                 currentAccessToken, reqs, httpLast>>

\* requireUserToken() of getUserToken.ts
RequireUserTokenCall ==
  /\ slotLog' = Logged("userToken", NoSet,
                       [fn |-> "require", slot |-> "userToken",
                        outcome |-> RequireUserToken(userAccessToken)])
  /\ UNCHANGED <<startVars, slots, server, tools, resources, defaultProfileId, buffer,
                 stdin, stdout, calls, running, exitCode, client, lastCall,
                 userAccessToken, currentAccessToken, reqs, httpLast>>

InitSlots ==
  /\ server = "medicine"
  /\ tools = ConfiguredTools(server)
  /\ resources = ConfiguredResources(server)
  /\ defaultProfileId = "default"
  /\ buffer = <<>>
  /\ stdin = <<>>
  /\ stdout = <<>>
  /\ calls = <<>>
  /\ running = TRUE
  /\ exitCode = 0
  /\ client = JSONStringify(Null)
  /\ lastCall = NoCall
  /\ userAccessToken = Null
  /\ currentAccessToken = Null
  /\ reqs = <<>>
  /\ httpLast = NoExchange
  /\ SlotsUntouched
  /\ Serving({"http"})

NextSlots ==
  \/ \E n \in SlotNames : \E v \in SlotValues(n) : SetCall(n, v)
  \/ \E n \in SlotNames : RequireCall(n)
  \/ GetAccessToken
  \/ \E v \in SlotValues("userToken") : SetUserToken(v)
  \/ RequireUserTokenCall

SpecSlots == InitSlots /\ [][NextSlots]_vars

(***************************************************************************)
(* Properties of the slot modules (SpecSlots).                             *)
(***************************************************************************)
TokenSlots == {"userAccessToken", "userToken"}

\* C32: requireUserToken / requireAccessToken return the most recently set
\* token when it is a non-empty string and throw "Authentication required"
\* when the last set stored null or nothing was set; getAccessToken returns
\* the most recently set value (null before any set) and does not throw
C32_RequireReturnsLastSet ==
  LET call == slotLog.call
  IN /\ (call.fn = "require" /\ call.slot \in TokenSlots)
          => LET last == slotLog.lastSet[call.slot]
             IN /\ (last.type = "string" /\ last.v # "") => call.outcome = Return(last)
                /\ last \in {Null, NoSet} => call.outcome = AuthRequired
     /\ call.fn = "get"
          => LET last == slotLog.lastSet[call.slot]
             IN call.outcome = Return(IF last = NoSet THEN Null ELSE last)

C32_SecondTokenReturned ==
  /\ slotLog.sets = 3
  /\ slotLog.call.fn = "require"
  /\ slotLog.call.slot = "userAccessToken"
  /\ slotLog.call.outcome = Return(Str("tokB"))
  /\ slotLog.lastSet["userToken"] = Null

\* C39: a setter changes its own slot only, and a require function throws
\* exactly when its slot holds a falsy value, returns the slot's value
\* otherwise, and changes no slot
C39_SettersAndRequiresFramed ==
  [][/\ \A n \in SlotNames : \A v \in SlotValues(n) :
          SetCall(n, v) => /\ slots'[n] = v
                           /\ \A m \in SlotNames \ {n} : slots'[m] = slots[m]
     /\ \A n \in SlotNames :
          RequireCall(n)
            => /\ slots' = slots
               /\ slotLog'.call.outcome.ok = (slots[n] \notin {Null, Str(""), Num(0)})
               /\ slotLog'.call.outcome.ok => slotLog'.call.outcome.value = slots[n]]_vars

C39_YearZeroRejected ==
  /\ slots.savingsCardEnrolledYear = Num(0)
  /\ slots.brand = Str("x")
  /\ slotLog.call.fn = "require"
  /\ slotLog.call.slot = "savingsCardEnrolledYear"
  /\ ~slotLog.call.outcome.ok

(***************************************************************************)
(* The stdio adapter fed with lines of any JSON text: requests with and    *)
(* without id and JSON texts that are no request objects.                  *)
(***************************************************************************)
LineDocs ==
  {JSONStringify(r) :
     r \in {Request(Num(7), Str("tools/list"), Undefined),
            Request(Undefined, Str("tools/list"), Undefined),
            Request(Undefined, Str("tools/call"), Undefined),
            Null, Num(7), Str("hi"), Arr}}

InitLines ==
  /\ server \in StdioServers
  /\ tools = ConfiguredTools(server)
  /\ resources = ConfiguredResources(server)
  /\ defaultProfileId = "default"
  /\ buffer = <<>>
  /\ stdin = <<>>
  /\ stdout = <<>>
  /\ calls = <<>>
  /\ running = TRUE
  /\ exitCode = 0
  /\ client \in LineDocs
  /\ lastCall = NoCall
  /\ userAccessToken = Null
  /\ currentAccessToken = Null
  /\ reqs = <<>>
  /\ httpLast = NoExchange
  /\ SlotsUntouched
  /\ Serving({"stdio"})

NextLines ==
  \/ \E chunk \in {<<NL>>, <<SP>>, <<Doc(client)>>} : Data(chunk)
  \/ End

SpecLines == InitLines /\ [][NextLines]_vars

(***************************************************************************)
(* Properties of the lines of the stream (SpecLines).                      *)
(***************************************************************************)
\* C33: the responses written are as many as the complete lines received
\* that hold a non-whitespace character, one for each in order, whether the
\* line is a request with an id, one without, or no request object at all;
\* blank lines add nothing
C33_OneResponsePerLine ==
  LET lines == Answerable
  IN /\ Len(stdout) = Len(lines)
     /\ \A k \in 1..Len(lines) : stdout[k] = ExpectedLine(lines[k])
     /\ Len(lines) <= Len(CompleteLines(stdin))

C33_BlankAndNoIdLines ==
  /\ Len(CompleteLines(stdin)) = 3
  /\ Len(Answerable) = 2
  /\ Len(stdout) = 2
  /\ "id" \notin DOMAIN stdout[1]
  /\ "result" \in DOMAIN stdout[1]

\* C34: a response with code -32700 answers a line that is not well-formed
\* JSON, never a line that is well-formed JSON
C34_ParseErrorOnlyForMalformed ==
  LET lines == Answerable
  IN \A k \in 1..Len(lines) :
       (k <= Len(stdout) /\ "error" \in DOMAIN stdout[k]
          /\ stdout[k].error.code = ParseError)
         => Malformed(lines[k])

\* C35: what is received after the last newline is never dispatched: the
\* end-of-input step writes nothing, calls nothing and exits with code 0,
\* even when the buffer holds a complete request
C35_TailNeverDispatched ==
  [][End => /\ stdout' = stdout
            /\ calls' = calls
            /\ Len(stdout') = Len(Answerable')
            /\ ~running'
            /\ exitCode' = 0]_vars

C35_ValidTailDropped ==
  /\ ~running
  /\ exitCode = 0
  /\ Trim(buffer) = <<Doc(client)>>
  /\ "members" \in DOMAIN client
  /\ "id" \in DOMAIN client.members
  /\ Len(stdout) = Len(Answerable)
  /\ Len(calls) = Len(stdout)

(***************************************************************************)
(* Properties of the token used by get-user-profile (SpecAuth).            *)
(***************************************************************************)
\* C36: the token of the outbound call is the value of the slot when the
\* handler started; while the call is pending it does not change, whatever
\* the middleware stores for other requests, and it is the token sent
C36_TokenFixedAtStart ==
  /\ [](\A r \in DOMAIN reqs :
          (server = "medicine" /\ reqs[r].pc = "done" /\ reqs[r].outcome.ok)
            => reqs[r].outcome.value.sentToken = reqs[r].userToken)
  /\ [][\A r \in DOMAIN reqs :
          /\ (reqs[r].pc = "routed" /\ reqs'[r].pc = "fetching")
               => reqs'[r].userToken = userAccessToken
          /\ reqs[r].pc \in {"fetching", "reading"}
               => reqs'[r].userToken = reqs[r].userToken]_vars

C36_SlotOverwrittenMeanwhile ==
  /\ server = "medicine"
  /\ Len(reqs) >= 2
  /\ reqs[1].pc \in {"fetching", "reading"}
  /\ reqs[1].userToken = Str("tokA")
  /\ reqs[2].pc = "routed"
  /\ userAccessToken = Str("tokB")

\* C37: a handler that starts while the slot holds no token fails with the
\* authentication-required error at once: no outbound call is issued and no
\* timer is started for it
C37_NoTokenFailsBeforeFetch ==
  /\ [](\A r \in DOMAIN reqs :
          (server = "medicine" /\ reqs[r].userToken = Null /\ reqs[r].pc # "routed")
            => /\ reqs[r].pc = "done"
               /\ reqs[r].outcome = AuthRequired
               /\ reqs[r].status = 0
               /\ ~reqs[r].late)
  /\ [][\A r \in DOMAIN reqs :
          (server = "medicine" /\ reqs[r].pc = "routed" /\ reqs'[r].pc # "routed"
             /\ ~Truthy(userAccessToken))
            => (reqs'[r].pc = "done" /\ reqs'[r].outcome = AuthRequired)]_vars

C37_ClearedBeforeStart ==
  /\ server = "medicine"
  /\ Len(reqs) >= 2
  /\ reqs[1].header = Header("Bearer ", "tokA")
  /\ reqs[1].pc = "done"
  /\ reqs[1].outcome = AuthRequired
  /\ reqs[1].status = 0

(***************************************************************************)
(* Registry and handlers of one server (SpecDispatch).                     *)
(***************************************************************************)
\* the answer of the server to one request with id 7
AnswerTo(method, params, now) ==
  Dispatch(server, JSONStringify(Request(Num(7), Str(method), params)), now)

\* the messages of the unknown-tool and of the unknown-resource error, as
\* thrown and as wrapped by the catch of profile-server.ts
UnknownToolMessages(t) ==
  {"Unknown tool: " \o t, "Failed to execute tool: Unknown tool: " \o t}

UnknownResourceMessages(u) ==
  {"Unknown resource: " \o u, "Failed to read resource: Unknown resource: " \o u}

HasMessage(outcome, messages) ==
  \/ ~outcome.ok
  \/ /\ "error" \in DOMAIN outcome.value
     /\ outcome.value.error.message \in messages

ArgsFor(t) ==
  {Undefined, NoArgs}
  \cup {Get(p, "arguments") :
          p \in {q \in ToolCallParams : Get(q, "name") = Str(t)}}

\* C38: every URI of resources/list is accepted by resources/read, every
\* name of tools/list is accepted by tools/call, and server://capabilities
\* lists exactly the names and URIs of tools/list and resources/list
C38_RegistryAndHandlersAgree ==
  \A now \in Clock :
    LET listedTools == AnswerTo("tools/list", Undefined, now)
        listedResources == AnswerTo("resources/list", Undefined, now)
        capabilities ==
          AnswerTo("resources/read", ResourceRead(Str("server://capabilities")), now)
    IN /\ listedTools.ok /\ listedResources.ok
       /\ \A u \in Range(listedResources.value.result.resources) :
            ~HasMessage(AnswerTo("resources/read", ResourceRead(Str(u)), now),
                        UnknownResourceMessages(u))
       /\ \A t \in Range(listedTools.value.result.tools) :
            \A args \in ArgsFor(t) :
              ~HasMessage(AnswerTo("tools/call", ToolCall(Str(t), args), now),
                          UnknownToolMessages(t))
       /\ "server://capabilities" \in Range(listedResources.value.result.resources)
            => /\ capabilities.ok
               /\ "result" \in DOMAIN capabilities.value
               /\ capabilities.value.result.contents[1].text.tools
                    = listedTools.value.result.tools
               /\ capabilities.value.result.contents[1].text.resources
                    = listedResources.value.result.resources
       /\ (/\ Called /\ lastCall.outcome.ok
           /\ CalledMethod = Str("tools/call") /\ CanDestructure(CalledParams)
           /\ Get(CalledParams, "name") \in
                {Str(t) : t \in Range(listedTools.value.result.tools)})
            => ~HasMessage(lastCall.outcome,
                           UnknownToolMessages(ToStr(Get(CalledParams, "name"))))
       /\ (/\ Called /\ lastCall.outcome.ok
           /\ CalledMethod = Str("resources/read") /\ CanDestructure(CalledParams)
           /\ Get(CalledParams, "uri") \in
                {Str(u) : u \in Range(listedResources.value.result.resources)})
            => ~HasMessage(lastCall.outcome,
                           UnknownResourceMessages(ToStr(Get(CalledParams, "uri"))))

C38_CapabilitiesRead ==
  /\ Called /\ server = "simple" /\ lastCall.outcome.ok
  /\ CalledMethod = Str("resources/read")
  /\ Get(CalledParams, "uri") = Str("server://capabilities")
  /\ "result" \in DOMAIN Answer
  /\ Answer.result.contents[1].text.tools = <<"echo", "get_current_time", "calculate">>
  /\ Answer.result.contents[1].text.resources
       = <<"server://info", "server://capabilities">>

====
